---- MODULE Spec2Model ----
(***************************************************************************)
(* A model of syn's item grammar (src/src/item.rs) and of the partial      *)
(* borrow receiver extension (src/src/partial_borrows.rs).                 *)
(*                                                                         *)
(* A token buffer is a sequence of strings.  Groups are written with their *)
(* delimiters in line ("(" ... ")"); every buffer is delimiter balanced,    *)
(* as the tokenizer only produces well-nested groups.  A parser is an      *)
(* operator from the remaining tokens of a stream to a result record       *)
(*     [ok, v, rest, exp]                                                  *)
(* ok: success; v: the parsed value; rest: the tokens left in the stream;   *)
(* exp: on failure, the expectations of the error message, in order.       *)
(* An Option<T> is a sequence of length 0 or 1.  The printer (ToTokens) is *)
(* an operator from a tree to the token sequence it appends.               *)
(***************************************************************************)
EXTENDS Integers, Sequences, FiniteSets, TLC

VARIABLES input, entry, phase, res, tree, printed, res2, derive, printing, receiver

vars == <<input, entry, phase, res, tree, printed, res2, derive, printing, receiver>>

----------------------------------------------------------------------------
(* Tokens *)

OuterAttrs == {"#[A1]", "#[A2]"}
InnerAttrs == {"#![A3]", "#![A4]"}
Idents == {"Foo", "Bar", "Trait", "Type", "Bound", "Box", "T", "f", "x", "a", "b",
           "union", "auto", "default", "existential", "impure", "m"}
\* A path segment of a type may also be the keyword Self.
TypeIdents == Idents \cup {"Self"}
Lifetimes == {"'a"}
LitStrs == {"\"C\""}
Opens == {"(", "{", "["}
Closes == {")", "}", "]"}

None == <<>>
Some(x) == <<x>>
IsSome(o) == o # <<>>

Ok(v, rest) == [ok |-> TRUE, v |-> v, rest |-> rest, exp |-> <<>>]
Err(exp, rest) == [ok |-> FALSE, v |-> <<>>, rest |-> rest, exp |-> exp]

\* `let x = e; rest` is written (CHOOSE out \in {rest : x \in {e}} : TRUE):
\* the one element of the set of values rest takes with x bound to the
\* value of e, the binding standing after the rest it governs.
\* `let x = e?; rest` adds the early return of the error,
\* IF ~x.ok THEN x ELSE rest.

Rest(s, n) == SubSeq(s, n + 1, Len(s))
Consumed(s, rest) == SubSeq(s, 1, Len(s) - Len(rest))

RECURSIVE CloseIndex(_, _, _)
CloseIndex(s, i, depth) ==
    IF i > Len(s) THEN i
    ELSE IF s[i] \in Opens THEN CloseIndex(s, i + 1, depth + 1)
    ELSE IF s[i] \in Closes
         THEN IF depth = 1 THEN i ELSE CloseIndex(s, i + 1, depth - 1)
    ELSE CloseIndex(s, i + 1, depth)

RECURSIVE Balanced(_, _)
Balanced(s, stack) ==
    IF s = <<>> THEN stack = <<>>
    ELSE IF s[1] \in Opens THEN Balanced(Tail(s), <<s[1]>> \o stack)
    ELSE IF s[1] \in Closes
         THEN /\ stack # <<>>
              /\ <<stack[1], s[1]>> \in {<<"(", ")">>, <<"{", "}">>, <<"[", "]">>}
              /\ Balanced(Tail(s), Tail(stack))
    ELSE Balanced(Tail(s), stack)

\* Length of the first token tree of a non-empty stream.
TreeLen(s) == IF s[1] \in Opens THEN CloseIndex(s, 2, 1) ELSE 1
Second(s) == IF s = <<>> THEN <<>> ELSE Rest(s, TreeLen(s))
Third(s) == Second(Second(s))

Peek(s, t) == s # <<>> /\ s[1] = t
PeekIn(s, S) == s # <<>> /\ s[1] \in S
Peek2(s, t) == Peek(Second(s), t)
Peek2In(s, S) == PeekIn(Second(s), S)
Peek3(s, t) == Peek(Third(s), t)

ParseTok(s, t) == IF Peek(s, t) THEN Ok(t, Rest(s, 1)) ELSE Err(<<t>>, s)
ParseOpt(s, t) == IF Peek(s, t) THEN Ok(Some(t), Rest(s, 1)) ELSE Ok(None, s)
ParseIdent(s) ==
    IF PeekIn(s, Idents) THEN Ok(s[1], Rest(s, 1)) ELSE Err(<<"identifier">>, s)
ParseOptLifetime(s) ==
    IF PeekIn(s, Lifetimes) THEN Ok(Some(s[1]), Rest(s, 1)) ELSE Ok(None, s)

\* braced!/parenthesized!: v is the content stream, rest the stream after
\* the group.
Delimited(s, open, what) ==
    IF Peek(s, open)
    THEN Ok(SubSeq(s, 2, CloseIndex(s, 2, 1) - 1), Rest(s, CloseIndex(s, 2, 1)))
    ELSE Err(<<what>>, s)
Braced(s) == Delimited(s, "{", "curly braces")
Parenthesized(s) == Delimited(s, "(", "parentheses")

\* ParseBuffer::parse_terminated: a Punctuated is a sequence of pairs
\* [v, p], p the separator that followed the value (None after the last
\* value of a list without trailing separator).
parse_terminated(P(_), s) ==
    LET RECURSIVE go(_)
        go(r) ==
            IF r = <<>> THEN Ok(<<>>, r)
            ELSE (CHOOSE out \in {
                IF ~value.ok THEN value ELSE
                IF value.rest = <<>> THEN Ok(<<[v |-> value.v, p |-> None]>>, value.rest)
                ELSE (CHOOSE out \in {
                    IF ~punct.ok THEN punct ELSE
                     (CHOOSE out \in {
                     IF ~more.ok THEN more ELSE
                     Ok(<<[v |-> value.v, p |-> Some(",")]>> \o more.v, more.rest)
                       : more \in {go(punct.rest)}} : TRUE)
                  : punct \in {ParseTok(value.rest, ",")}} : TRUE)
              : value \in {P(r)}} : TRUE)
    IN  go(s)

\* impl ToTokens for Punctuated: every value followed by its separator.
Punctuated_to_tokens(T(_), ps) ==
    LET RECURSIVE go(_)
        go(r) == IF r = <<>> THEN <<>> ELSE T(r[1].v) \o r[1].p \o go(Tail(r))
    IN  go(ps)

RECURSIVE TakeWhileIn(_, _)
TakeWhileIn(s, S) ==
    IF PeekIn(s, S) THEN <<s[1]>> \o TakeWhileIn(Tail(s), S) ELSE <<>>

Attribute_parse_outer(s) ==
    (CHOOSE out \in {Ok(as, Rest(s, Len(as))) : as \in {TakeWhileIn(s, OuterAttrs)}} : TRUE)
Attribute_parse_inner(s) ==
    (CHOOSE out \in {Ok(as, Rest(s, Len(as))) : as \in {TakeWhileIn(s, InnerAttrs)}} : TRUE)

SelectSeqIn(s, S) == LET In(t) == t \in S IN SelectSeq(s, In)
attrs_outer(attrs) == SelectSeqIn(attrs, OuterAttrs)
attrs_inner(attrs) == SelectSeqIn(attrs, InnerAttrs)

----------------------------------------------------------------------------
(* The type and pattern sub-grammars, kept to the shapes the item grammar  *)
(* looks into: a path type with optional generic arguments, a qualified    *)
(* path opening with "<", a reference.                                     *)

RECURSIVE Type_parse(_)
Type_parse(s) ==
    IF PeekIn(s, TypeIdents) THEN
        IF Peek2(s, "<") THEN
            (CHOOSE out \in {
            IF ~a.ok THEN a ELSE
            IF Peek(a.rest, ">")
            THEN Ok([verbatim |-> FALSE, toks |-> Consumed(s, Rest(a.rest, 1))],
                    Rest(a.rest, 1))
            ELSE Err(<<">">>, a.rest)
              : a \in {Type_parse(Rest(s, 2))}} : TRUE)
        ELSE Ok([verbatim |-> FALSE, toks |-> <<s[1]>>], Rest(s, 1))
    ELSE IF Peek(s, "<") THEN
        (CHOOSE out \in {
        IF ~a.ok THEN a ELSE
        IF /\ Peek(a.rest, "as") /\ PeekIn(Rest(a.rest, 1), Idents)
           /\ Peek(Rest(a.rest, 2), ">") /\ Peek(Rest(a.rest, 3), "::")
           /\ PeekIn(Rest(a.rest, 4), Idents)
        THEN Ok([verbatim |-> FALSE, toks |-> Consumed(s, Rest(a.rest, 5))],
                Rest(a.rest, 5))
        ELSE Err(<<"as">>, a.rest)
          : a \in {Type_parse(Rest(s, 1))}} : TRUE)
    ELSE IF Peek(s, "&") THEN
        (CHOOSE out \in {
        (CHOOSE out \in {
        (CHOOSE out \in {
        IF ~a.ok THEN a ELSE
        Ok([verbatim |-> FALSE, toks |-> Consumed(s, a.rest)], a.rest)
          : a \in {Type_parse(m.rest)}} : TRUE)
          : m \in {ParseOpt(l.rest, "mut")}} : TRUE)
          : l \in {ParseOptLifetime(Rest(s, 1))}} : TRUE)
    ELSE Err(<<"type">>, s)

Type_to_tokens(ty) == ty.toks

RECURSIVE Pat_parse(_)
Pat_parse(s) ==
    IF Peek(s, "_") THEN Ok([kind |-> "Wild", ident |-> "_", toks |-> <<"_">>], Rest(s, 1))
    ELSE IF Peek(s, "&") THEN
        (CHOOSE out \in {
        (CHOOSE out \in {
        IF ~p.ok THEN p ELSE
        Ok([kind |-> "Reference", ident |-> p.v.ident,
            toks |-> Consumed(s, p.rest)], p.rest)
          : p \in {Pat_parse(m.rest)}} : TRUE)
          : m \in {ParseOpt(Rest(s, 1), "mut")}} : TRUE)
    ELSE (CHOOSE out \in {
        IF PeekIn(m.rest, Idents \cup {"self"})
        THEN Ok([kind |-> "Ident", ident |-> m.rest[1],
                 toks |-> Consumed(s, Rest(m.rest, 1))], Rest(m.rest, 1))
        ELSE Err(<<"pattern">>, s)
      : m \in {ParseOpt(s, "mut")}} : TRUE)

Pat_to_tokens(pat) == pat.toks

----------------------------------------------------------------------------
(* partial_borrows.rs *)

PartialBorrow_parse(s) ==
    (CHOOSE out \in {
    (CHOOSE out \in {
    IF ~ident.ok THEN ident ELSE
    Ok([mutability |-> mutability.v, ident |-> ident.v], ident.rest)
      : ident \in {ParseIdent(mutability.rest)}} : TRUE)
      : mutability \in {ParseOpt(s, "mut")}} : TRUE)

PartialBorrows_terminated(s) == parse_terminated(PartialBorrow_parse, s)

PartialBorrows_parse(s) ==
    (CHOOSE out \in {
    IF ~content.ok THEN content ELSE
    (CHOOSE out \in {
    IF ~borrows.ok THEN borrows ELSE
    Ok([borrows |-> borrows.v], content.rest)
      : borrows \in {PartialBorrows_terminated(content.v)}} : TRUE)
      : content \in {Braced(s)}} : TRUE)


\* PartialBorrow's printer with the two fields emitted in the wrong order.
PartialBorrow_to_tokens_ident_first(b) == <<b.ident>> \o b.mutability

PartialBorrow_to_tokens(b) == b.mutability \o <<b.ident>>

Surround(open, inner, close) == <<open>> \o inner \o <<close>>

PartialBorrows_to_tokens(pb) ==
    Surround("{", Punctuated_to_tokens(PartialBorrow_to_tokens, pb.borrows), "}")

----------------------------------------------------------------------------
(* The other sub-grammars the item grammar calls into (visibility, paths,  *)
(* bounds, generics, where clauses, ABIs, expressions, blocks, macros and  *)
(* data fields).  Their values are the tokens they consumed; their         *)
(* printers give those tokens back.                                        *)

Visibility_parse(s) ==
    IF Peek(s, "pub") THEN Ok(<<"pub">>, Rest(s, 1))
    ELSE IF Peek(s, "crate") /\ ~Peek2(s, "::") THEN Ok(<<"crate">>, Rest(s, 1))
    ELSE Ok(<<>>, s)

is_inherited(vis) == vis = <<>>

\* Path::parse: [::] segment (:: segment)*, a segment an identifier with
\* optional generic arguments.
Path_parse(s) ==
    LET RECURSIVE segments(_)
        segments(r) ==
            IF ~PeekIn(r, TypeIdents) THEN Err(<<"identifier">>, r)
            ELSE (CHOOSE out \in {
                IF ~seg.ok THEN seg ELSE
                IF Peek(seg.rest, "::") /\ PeekIn(Rest(seg.rest, 1), TypeIdents)
                THEN segments(Rest(seg.rest, 1))
                ELSE seg
              : seg \in {IF Peek2(r, "<") THEN Type_parse(r) ELSE Ok(<<>>, Rest(r, 1))}} : TRUE)
    IN  (CHOOSE out \in {
        IF ~body.ok THEN body ELSE
        Ok(Consumed(s, body.rest), body.rest)
      : body \in {segments(IF Peek(s, "::") THEN Rest(s, 1) ELSE s)}} : TRUE)

PathKeywords == {"self", "super", "crate", "extern", "Self"}

Path_parse_mod_style(s) ==
    LET RECURSIVE segments(_)
        segments(r) ==
            IF ~PeekIn(r, Idents \cup PathKeywords) THEN r
            ELSE IF Peek2(r, "::") THEN segments(Rest(r, 2)) ELSE Rest(r, 1)
    IN  (CHOOSE out \in {
        (CHOOSE out \in {
        IF rest = start THEN Err(<<"path">>, start)
        ELSE IF s[Len(s) - Len(rest)] = "::" THEN Err(<<"path segment">>, rest)
        ELSE Ok(Consumed(s, rest), rest)
          : rest \in {segments(start)}} : TRUE)
      : start \in {IF Peek(s, "::") THEN Rest(s, 1) ELSE s}} : TRUE)

TypeParamBound_parse(s) ==
    IF PeekIn(s, Lifetimes) THEN Ok(<<s[1]>>, Rest(s, 1))
    ELSE IF Peek(s, "?") THEN
        (CHOOSE out \in {
        IF ~path.ok THEN path ELSE Ok(Consumed(s, path.rest), path.rest)
          : path \in {Path_parse(Rest(s, 1))}} : TRUE)
    ELSE Path_parse(s)

\* bound (+ bound)*, as in a type parameter or a where predicate.
Bounds_parse(s) ==
    LET RECURSIVE go(_)
        go(r) ==
            (CHOOSE out \in {
            IF ~bound.ok THEN bound ELSE
            IF Peek(bound.rest, "+") THEN go(Rest(bound.rest, 1)) ELSE bound
              : bound \in {TypeParamBound_parse(r)}} : TRUE)
    IN  (CHOOSE out \in {
        IF ~last.ok THEN last ELSE Ok(Consumed(s, last.rest), last.rest)
      : last \in {go(s)}} : TRUE)

NoGenerics == [params |-> <<>>, where_clause |-> <<>>]

Generics_parse(s) ==
    LET RECURSIVE params(_)
        params(r) ==
            IF Peek(r, ">") THEN Ok(<<>>, Rest(r, 1))
            ELSE (CHOOSE out \in {
                IF ~PeekIn(attrs.rest, Lifetimes \cup Idents)
                THEN Err(<<"lifetime", "identifier", "const">>, attrs.rest)
                ELSE (CHOOSE out \in {
                     (CHOOSE out \in {
                     IF ~bounds.ok THEN bounds ELSE
                     IF Peek(bounds.rest, ">") THEN Ok(<<>>, Rest(bounds.rest, 1))
                     ELSE IF Peek(bounds.rest, ",") THEN params(Rest(bounds.rest, 1))
                     ELSE Err(<<",">>, bounds.rest)
                       : bounds \in {IF Peek(name, ":") /\ ~PeekIn(Rest(name, 1), {",", ">"})
                         THEN Bounds_parse(Rest(name, 1))
                         ELSE Ok(<<>>, IF Peek(name, ":") THEN Rest(name, 1) ELSE name)}} : TRUE)
                  : name \in {Rest(attrs.rest, 1)}} : TRUE)
              : attrs \in {Attribute_parse_outer(r)}} : TRUE)
    IN  IF ~Peek(s, "<") THEN Ok(NoGenerics, s)
        ELSE (CHOOSE out \in {
            IF ~list.ok THEN list ELSE
             Ok([params |-> Consumed(s, list.rest), where_clause |-> <<>>], list.rest)
          : list \in {params(Rest(s, 1))}} : TRUE)

\* impl Parse for Option<WhereClause>
WhereClause_parse(s) ==
    LET RECURSIVE predicates(_)
        predicates(r) ==
            IF r = <<>> \/ PeekIn(r, {"{", ",", ";", ":", "="}) THEN Ok(<<>>, r)
            ELSE IF ~PeekIn(r, Lifetimes \cup TypeIdents) THEN Err(<<"type">>, r)
            ELSE (CHOOSE out \in {
                IF ~colon.ok THEN colon ELSE
                 (CHOOSE out \in {
                 IF ~bounds.ok THEN bounds ELSE
                 IF Peek(bounds.rest, ",") THEN predicates(Rest(bounds.rest, 1))
                 ELSE Ok(<<>>, bounds.rest)
                   : bounds \in {Bounds_parse(colon.rest)}} : TRUE)
              : colon \in {ParseTok(Rest(r, 1), ":")}} : TRUE)
    IN  IF ~Peek(s, "where") THEN Ok(None, s)
        ELSE (CHOOSE out \in {
            IF ~list.ok THEN list ELSE
             Ok(Consumed(s, list.rest), list.rest)
          : list \in {predicates(Rest(s, 1))}} : TRUE)

Generics_to_tokens(g) == g.params
WhereClause_to_tokens(g) == g.where_clause

\* impl Parse for Option<Abi> and for Abi
OptAbi_parse(s) ==
    IF ~Peek(s, "extern") THEN Ok(None, s)
    ELSE IF Peek2In(s, LitStrs) THEN Ok(SubSeq(s, 1, 2), Rest(s, 2))
    ELSE Ok(<<"extern">>, Rest(s, 1))

Abi_parse(s) == IF Peek(s, "extern") THEN OptAbi_parse(s) ELSE Err(<<"extern">>, s)

ReturnType_parse(s) ==
    IF ~Peek(s, "->") THEN Ok(<<>>, s)
    ELSE (CHOOSE out \in {
        IF ~ty.ok THEN ty ELSE Ok(Consumed(s, ty.rest), ty.rest)
      : ty \in {Type_parse(Rest(s, 1))}} : TRUE)

ExprToks == {"1", "e"}
StmtToks == {"stmt"}

Expr_parse(s) ==
    IF PeekIn(s, ExprToks) THEN Ok(<<s[1]>>, Rest(s, 1)) ELSE Err(<<"expression">>, s)

\* Block::parse_within: the statements up to the end of the block.
Block_parse_within(s) ==
    IF \A i \in 1..Len(s) : s[i] \in StmtToks THEN Ok(s, <<>>)
    ELSE Err(<<"statement">>, s)

\* mac::parse_delimiter
parse_delimiter(s) ==
    IF PeekIn(s, Opens)
    THEN Ok([delimiter |-> s[1], tokens |-> Delimited(s, s[1], "").v], Second(s))
    ELSE Err(<<"delimiter">>, s)

is_brace(delimiter) == delimiter = "{"
CloseOf(open) == CASE open = "(" -> ")" [] open = "{" -> "}" [] open = "[" -> "]"

\* impl Parse for Macro
Macro_parse(s) ==
    (CHOOSE out \in {
    IF ~path.ok THEN path ELSE
    (CHOOSE out \in {
    IF ~bang_token.ok THEN bang_token ELSE
    (CHOOSE out \in {
    IF ~body.ok THEN body ELSE
    Ok([path |-> path.v, delimiter |-> body.v.delimiter, tokens |-> body.v.tokens],
       body.rest)
      : body \in {parse_delimiter(bang_token.rest)}} : TRUE)
      : bang_token \in {ParseTok(path.rest, "!")}} : TRUE)
      : path \in {Path_parse_mod_style(s)}} : TRUE)

Macro_to_tokens(mac) ==
    mac.path \o <<"!">> \o Surround(mac.delimiter, mac.tokens, CloseOf(mac.delimiter))

\* data.rs: Field::parse_named and Field::parse_unnamed
Field_parse_named(s) ==
    (CHOOSE out \in {
    (CHOOSE out \in {
    (CHOOSE out \in {
    IF ~ident.ok THEN ident ELSE
    (CHOOSE out \in {
    IF ~colon.ok THEN colon ELSE
    (CHOOSE out \in {
    IF ~ty.ok THEN ty ELSE
    Ok(Consumed(s, ty.rest), ty.rest)
      : ty \in {Type_parse(colon.rest)}} : TRUE)
      : colon \in {ParseTok(ident.rest, ":")}} : TRUE)
      : ident \in {ParseIdent(vis.rest)}} : TRUE)
      : vis \in {Visibility_parse(attrs.rest)}} : TRUE)
      : attrs \in {Attribute_parse_outer(s)}} : TRUE)

Field_parse_unnamed(s) ==
    (CHOOSE out \in {
    (CHOOSE out \in {
    (CHOOSE out \in {
    IF ~ty.ok THEN ty ELSE
    Ok(Consumed(s, ty.rest), ty.rest)
      : ty \in {Type_parse(vis.rest)}} : TRUE)
      : vis \in {Visibility_parse(attrs.rest)}} : TRUE)
      : attrs \in {Attribute_parse_outer(s)}} : TRUE)

FieldsNamed_parse(s) ==
    (CHOOSE out \in {
    IF ~content.ok THEN content ELSE
    (CHOOSE out \in {
    IF ~named.ok THEN named ELSE
    Ok([kind |-> "Named", toks |-> Consumed(s, content.rest)], content.rest)
      : named \in {parse_terminated(Field_parse_named, content.v)}} : TRUE)
      : content \in {Braced(s)}} : TRUE)

FieldsUnnamed_parse(s) ==
    (CHOOSE out \in {
    IF ~content.ok THEN content ELSE
    (CHOOSE out \in {
    IF ~unnamed.ok THEN unnamed ELSE
    Ok([kind |-> "Unnamed", toks |-> Consumed(s, content.rest)], content.rest)
      : unnamed \in {parse_terminated(Field_parse_unnamed, content.v)}} : TRUE)
      : content \in {Parenthesized(s)}} : TRUE)

FieldsUnit == [kind |-> "Unit", toks |-> <<>>]
Fields_to_tokens(fields) == fields.toks

\* derive.rs: data_struct, data_enum, data_union
data_struct(s) ==
    (CHOOSE out \in {
    IF ~where1.ok THEN where1 ELSE
    IF where1.v = None /\ Peek(where1.rest, "(") THEN
        (CHOOSE out \in {
        IF ~fields.ok THEN fields ELSE
        (CHOOSE out \in {
        IF ~where2.ok THEN where2 ELSE
        IF Peek(where2.rest, ";")
        THEN Ok([where_clause |-> where2.v, fields |-> fields.v, semi_token |-> Some(";")],
                Rest(where2.rest, 1))
        ELSE Err((IF Peek(fields.rest, "where") THEN <<>> ELSE <<"where">>) \o <<";">>,
                 where2.rest)
          : where2 \in {IF Peek(fields.rest, "where")
            THEN WhereClause_parse(fields.rest) ELSE Ok(None, fields.rest)}} : TRUE)
          : fields \in {FieldsUnnamed_parse(where1.rest)}} : TRUE)
    ELSE IF Peek(where1.rest, "{") THEN
        (CHOOSE out \in {
        IF ~fields.ok THEN fields ELSE
        Ok([where_clause |-> where1.v, fields |-> fields.v, semi_token |-> None],
           fields.rest)
          : fields \in {FieldsNamed_parse(where1.rest)}} : TRUE)
    ELSE IF Peek(where1.rest, ";")
    THEN Ok([where_clause |-> where1.v, fields |-> FieldsUnit, semi_token |-> Some(";")],
            Rest(where1.rest, 1))
    ELSE Err((IF IsSome(where1.v) THEN <<>> ELSE <<"where", "parentheses">>)
             \o <<"curly braces", ";">>, where1.rest)
      : where1 \in {IF Peek(s, "where") THEN WhereClause_parse(s) ELSE Ok(None, s)}} : TRUE)

Variant_parse(s) ==
    (CHOOSE out \in {
    (CHOOSE out \in {
    IF ~ident.ok THEN ident ELSE
    (CHOOSE out \in {
    IF ~fields.ok THEN fields ELSE
    IF ~Peek(fields.rest, "=") THEN Ok(Consumed(s, fields.rest), fields.rest)
    ELSE (CHOOSE out \in {
        IF ~discriminant.ok THEN discriminant ELSE
         Ok(Consumed(s, discriminant.rest), discriminant.rest)
      : discriminant \in {Expr_parse(Rest(fields.rest, 1))}} : TRUE)
      : fields \in {IF Peek(ident.rest, "{") THEN FieldsNamed_parse(ident.rest)
        ELSE IF Peek(ident.rest, "(") THEN FieldsUnnamed_parse(ident.rest)
        ELSE Ok(FieldsUnit, ident.rest)}} : TRUE)
      : ident \in {ParseIdent(attrs.rest)}} : TRUE)
      : attrs \in {Attribute_parse_outer(s)}} : TRUE)

data_enum(s) ==
    (CHOOSE out \in {
    IF ~where_clause.ok THEN where_clause ELSE
    (CHOOSE out \in {
    IF ~content.ok THEN content ELSE
    (CHOOSE out \in {
    IF ~variants.ok THEN variants ELSE
    Ok([where_clause |-> where_clause.v, variants |-> content.v], content.rest)
      : variants \in {parse_terminated(Variant_parse, content.v)}} : TRUE)
      : content \in {Braced(where_clause.rest)}} : TRUE)
      : where_clause \in {WhereClause_parse(s)}} : TRUE)

data_union(s) ==
    (CHOOSE out \in {
    IF ~where_clause.ok THEN where_clause ELSE
    (CHOOSE out \in {
    IF ~fields.ok THEN fields ELSE
    Ok([where_clause |-> where_clause.v, fields |-> fields.v], fields.rest)
      : fields \in {FieldsNamed_parse(where_clause.rest)}} : TRUE)
      : where_clause \in {WhereClause_parse(s)}} : TRUE)

----------------------------------------------------------------------------
(* item.rs: function parameters *)

NoTree == [kind |-> "NoTree"]
NoRes == Err(<<>>, <<>>)
NoDerive == [kind |-> "NoDeriveInput"]

Receiver_parse(s) ==
    IF Peek(s, "mut") THEN
        (CHOOSE out \in {
        (CHOOSE out \in {
        IF ~self_token.ok THEN self_token ELSE
        Ok([kind |-> "Receiver", attrs |-> <<>>,
            reference |-> [kind |-> "None", mutability |-> mutability.v]],
           self_token.rest)
          : self_token \in {ParseTok(mutability.rest, "self")}} : TRUE)
          : mutability \in {ParseOpt(s, "mut")}} : TRUE)
    ELSE IF Peek(s, "&") THEN
        (CHOOSE out \in {
        (CHOOSE out \in {
        (CHOOSE out \in {
        (CHOOSE out \in {
        IF ~self_token.ok THEN self_token ELSE
        Ok([kind |-> "Receiver", attrs |-> <<>>,
            reference |-> [kind |-> "Full", lifetime |-> lifetime.v,
                           mutability |-> mutability.v]],
           self_token.rest)
          : self_token \in {ParseTok(mutability.rest, "self")}} : TRUE)
          : mutability \in {ParseOpt(lifetime.rest, "mut")}} : TRUE)
          : lifetime \in {ParseOptLifetime(ampersand.rest)}} : TRUE)
          : ampersand \in {ParseTok(s, "&")}} : TRUE)
    ELSE IF Peek(s, "self") THEN
        (CHOOSE out \in {
        IF Peek(self_token.rest, ".") THEN
            (CHOOSE out \in {
            (CHOOSE out \in {
            IF ~partial.ok THEN partial ELSE
            Ok([kind |-> "Receiver", attrs |-> <<>>,
                reference |-> [kind |-> "Partial", borrows |-> partial.v.borrows]],
               partial.rest)
              : partial \in {PartialBorrows_parse(dot.rest)}} : TRUE)
              : dot \in {ParseTok(self_token.rest, ".")}} : TRUE)
        ELSE Ok([kind |-> "Receiver", attrs |-> <<>>,
                 reference |-> [kind |-> "None", mutability |-> None]],
                self_token.rest)
          : self_token \in {ParseTok(s, "self")}} : TRUE)
    ELSE Err(<<"mut", "&", "self">>, s)

fn_arg_typed(s) ==
    IF PeekIn(s, Idents) /\ Peek2(s, "<") THEN
        (CHOOSE out \in {
        IF ~ty.ok THEN ty ELSE
        Ok([kind |-> "Typed", attrs |-> <<>>,
            pat |-> [kind |-> "Wild", ident |-> "_", toks |-> <<"_">>],
            colon_token |-> ":", ty |-> ty.v], ty.rest)
          : ty \in {Type_parse(s)}} : TRUE)
    ELSE
        (CHOOSE out \in {
        IF ~pat.ok THEN pat ELSE
        (CHOOSE out \in {
        IF ~colon_token.ok THEN colon_token ELSE
        (CHOOSE out \in {
        IF IsSome(dot3.v)
        THEN Ok([kind |-> "Typed", attrs |-> <<>>, pat |-> pat.v, colon_token |-> ":",
                 ty |-> [verbatim |-> TRUE, toks |-> <<"...">>]], dot3.rest)
        ELSE (CHOOSE out \in {
            IF ~ty.ok THEN ty ELSE
             Ok([kind |-> "Typed", attrs |-> <<>>, pat |-> pat.v, colon_token |-> ":",
                 ty |-> ty.v], ty.rest)
          : ty \in {Type_parse(dot3.rest)}} : TRUE)
          : dot3 \in {ParseOpt(colon_token.rest, "...")}} : TRUE)
          : colon_token \in {ParseTok(pat.rest, ":")}} : TRUE)
          : pat \in {Pat_parse(s)}} : TRUE)

\* FnArg::parse without the test for a following ":".
FnArg_parse_no_colon_test(s) ==
    (CHOOSE out \in {
    (CHOOSE out \in {
    IF ahead.ok
    THEN Ok([ahead.v EXCEPT !.attrs = attrs.v], ahead.rest)
    ELSE (CHOOSE out \in {
        IF ~typed.ok THEN typed ELSE
         Ok([typed.v EXCEPT !.attrs = attrs.v], typed.rest)
      : typed \in {fn_arg_typed(attrs.rest)}} : TRUE)
      : ahead \in {Receiver_parse(attrs.rest)}} : TRUE)
      : attrs \in {Attribute_parse_outer(s)}} : TRUE)

\* FnArg::parse with the typed parameter read from the fork's position.
FnArg_parse_typed_from_fork(s) ==
    (CHOOSE out \in {
    (CHOOSE out \in {
    IF ahead.ok /\ ~Peek(ahead.rest, ":")
    THEN Ok([ahead.v EXCEPT !.attrs = attrs.v], ahead.rest)
    ELSE (CHOOSE out \in {
        IF ~typed.ok THEN typed ELSE
         Ok([typed.v EXCEPT !.attrs = attrs.v], typed.rest)
      : typed \in {fn_arg_typed(IF ahead.ok THEN ahead.rest ELSE attrs.rest)}} : TRUE)
      : ahead \in {Receiver_parse(attrs.rest)}} : TRUE)
      : attrs \in {Attribute_parse_outer(s)}} : TRUE)

FnArg_parse(s) ==
    (CHOOSE out \in {
    (CHOOSE out \in {
    IF ahead.ok /\ ~Peek(ahead.rest, ":")
    THEN Ok([ahead.v EXCEPT !.attrs = attrs.v], ahead.rest)
    ELSE (CHOOSE out \in {
        IF ~typed.ok THEN typed ELSE
         Ok([typed.v EXCEPT !.attrs = attrs.v], typed.rest)
      : typed \in {fn_arg_typed(attrs.rest)}} : TRUE)
      : ahead \in {Receiver_parse(attrs.rest)}} : TRUE)
      : attrs \in {Attribute_parse_outer(s)}} : TRUE)

Receiver_to_tokens(r) ==
    attrs_outer(r.attrs) \o
    CASE r.reference.kind = "None" -> r.reference.mutability \o <<"self">>
      [] r.reference.kind = "Partial" ->
            <<"self">> \o <<".">> \o PartialBorrows_to_tokens(r.reference)
      [] r.reference.kind = "Full" ->
            <<"&">> \o r.reference.lifetime \o r.reference.mutability \o <<"self">>

PatType_to_tokens(t) ==
    attrs_outer(t.attrs) \o Pat_to_tokens(t.pat) \o <<t.colon_token>>
    \o Type_to_tokens(t.ty)

FnArg_to_tokens(arg) ==
    IF arg.kind = "Receiver" THEN Receiver_to_tokens(arg) ELSE PatType_to_tokens(arg)

\* Signature::receiver: inputs.first()?, then the match on the parameter;
\* Pat::Ident(PatIdent { ident, .. }) leaves by_ref, mutability and subpat
\* unexamined.
Signature_receiver(sig) ==
    IF sig.inputs = <<>> THEN None
    ELSE (CHOOSE out \in {
        IF arg.kind = "Receiver" THEN Some(arg)
        ELSE IF arg.pat.kind = "Ident" /\ arg.pat.ident = "self" THEN Some(arg)
        ELSE None
      : arg \in {sig.inputs[1].v}} : TRUE)

----------------------------------------------------------------------------
(* item.rs: items without a body of members *)

\* private::attrs(outer, inner)
private_attrs(outer, inner) == outer \o inner

\* while !content.is_empty() { items.push(content.parse()?) }
parse_all(P(_), s) ==
    LET RECURSIVE go(_)
        go(r) ==
            IF r = <<>> THEN Ok(<<>>, r)
            ELSE (CHOOSE out \in {
                IF ~item.ok THEN item ELSE
                 (CHOOSE out \in {
                 IF ~more.ok THEN more ELSE
                 Ok(<<item.v>> \o more.v, more.rest)
                   : more \in {go(item.rest)}} : TRUE)
              : item \in {P(r)}} : TRUE)
    IN  go(s)

\* tokens.append_all(items)
append_all(T(_), items) ==
    LET RECURSIVE go(_)
        go(r) == IF r = <<>> THEN <<>> ELSE T(r[1]) \o go(Tail(r))
    IN  go(items)

\* Ident::parse_any restricted to the tokens in S.
ParseAnyIdent(s, S, exp) ==
    IF PeekIn(s, S) THEN Ok(s[1], Rest(s, 1)) ELSE Err(exp, s)

ItemMacro_parse(s) ==
    (CHOOSE out \in {
    (CHOOSE out \in {
    IF ~path.ok THEN path ELSE
    (CHOOSE out \in {
    IF ~bang_token.ok THEN bang_token ELSE
    (CHOOSE out \in {
    (CHOOSE out \in {
    IF ~body.ok THEN body ELSE
    (CHOOSE out \in {
    IF ~semi_token.ok THEN semi_token ELSE
    Ok([kind |-> "Macro", attrs |-> attrs.v, ident |-> ident.v,
        mac |-> [path |-> path.v, delimiter |-> body.v.delimiter,
                 tokens |-> body.v.tokens],
        semi_token |-> IF ~is_brace(body.v.delimiter) THEN Some(";") ELSE None],
       semi_token.rest)
      : semi_token \in {IF ~is_brace(body.v.delimiter)
        THEN ParseTok(body.rest, ";") ELSE Ok(";", body.rest)}} : TRUE)
      : body \in {parse_delimiter(ident.rest)}} : TRUE)
      : ident \in {IF PeekIn(bang_token.rest, Idents)
        THEN Ok(Some(bang_token.rest[1]), Rest(bang_token.rest, 1))
        ELSE Ok(None, bang_token.rest)}} : TRUE)
      : bang_token \in {ParseTok(path.rest, "!")}} : TRUE)
      : path \in {Path_parse_mod_style(attrs.rest)}} : TRUE)
      : attrs \in {Attribute_parse_outer(s)}} : TRUE)

ItemMacro2_parse(s) ==
    (CHOOSE out \in {
    (CHOOSE out \in {
    (CHOOSE out \in {
    IF ~macro_token.ok THEN macro_token ELSE
    (CHOOSE out \in {
    IF ~ident.ok THEN ident ELSE
    (CHOOSE out \in {
    IF Peek(args, "{")
    THEN Ok([kind |-> "Macro2", attrs |-> attrs.v, vis |-> vis.v, ident |-> ident.v,
             rules |-> Consumed(ident.rest, Second(args))], Second(args))
    ELSE Err((IF Peek(ident.rest, "(") THEN <<>> ELSE <<"parentheses">>)
             \o <<"curly braces">>, args)
      : args \in {IF Peek(ident.rest, "(") THEN Second(ident.rest) ELSE ident.rest}} : TRUE)
      : ident \in {ParseIdent(macro_token.rest)}} : TRUE)
      : macro_token \in {ParseTok(vis.rest, "macro")}} : TRUE)
      : vis \in {Visibility_parse(attrs.rest)}} : TRUE)
      : attrs \in {Attribute_parse_outer(s)}} : TRUE)

ItemExternCrate_parse(s) ==
    (CHOOSE out \in {
    (CHOOSE out \in {
    (CHOOSE out \in {
    IF ~extern_token.ok THEN extern_token ELSE
    (CHOOSE out \in {
    IF ~crate_token.ok THEN crate_token ELSE
    (CHOOSE out \in {
    IF ~ident.ok THEN ident ELSE
    (CHOOSE out \in {
    IF ~rename.ok THEN rename ELSE
    (CHOOSE out \in {
    IF ~semi_token.ok THEN semi_token ELSE
    Ok([kind |-> "ExternCrate", attrs |-> attrs.v, vis |-> vis.v, ident |-> ident.v,
        rename |-> rename.v], semi_token.rest)
      : semi_token \in {ParseTok(rename.rest, ";")}} : TRUE)
      : rename \in {IF ~Peek(ident.rest, "as") THEN Ok(None, ident.rest)
        ELSE (CHOOSE out \in {
            IF ~name.ok THEN name ELSE
             Ok(<<"as", name.v>>, name.rest)
          : name \in {ParseAnyIdent(Rest(ident.rest, 1), Idents \cup {"_"},
                               <<"identifier">>)}} : TRUE)}} : TRUE)
      : ident \in {ParseAnyIdent(crate_token.rest, Idents \cup {"self"}, <<"identifier">>)}} : TRUE)
      : crate_token \in {ParseTok(extern_token.rest, "crate")}} : TRUE)
      : extern_token \in {ParseTok(vis.rest, "extern")}} : TRUE)
      : vis \in {Visibility_parse(attrs.rest)}} : TRUE)
      : attrs \in {Attribute_parse_outer(s)}} : TRUE)

RECURSIVE UseTree_parse(_)
UseTree_parse(s) ==
    IF PeekIn(s, Idents \cup {"self", "super", "crate", "extern"}) THEN
        (CHOOSE out \in {
        IF Peek(after, "::") THEN
            (CHOOSE out \in {
            IF ~sub.ok THEN sub ELSE
            Ok([kind |-> "Path", ident |-> s[1], tree |-> sub.v], sub.rest)
              : sub \in {UseTree_parse(Rest(after, 1))}} : TRUE)
        ELSE IF Peek(after, "as") THEN
            IF PeekIn(Rest(after, 1), Idents \cup {"_"})
            THEN Ok([kind |-> "Rename", ident |-> s[1], rename |-> after[2]],
                    Rest(after, 2))
            ELSE Err(<<"identifier or underscore">>, Rest(after, 1))
        ELSE Ok([kind |-> "Name", ident |-> s[1]], after)
          : after \in {Rest(s, 1)}} : TRUE)
    ELSE IF Peek(s, "*") THEN Ok([kind |-> "Glob"], Rest(s, 1))
    ELSE IF Peek(s, "{") THEN
        (CHOOSE out \in {
        (CHOOSE out \in {
        IF ~items.ok THEN items ELSE
        Ok([kind |-> "Group", items |-> items.v], content.rest)
          : items \in {parse_terminated(UseTree_parse, content.v)}} : TRUE)
          : content \in {Braced(s)}} : TRUE)
    ELSE Err(<<"identifier", "self", "super", "crate", "extern", "*", "curly braces">>, s)

ItemUse_parse(s) ==
    (CHOOSE out \in {
    (CHOOSE out \in {
    (CHOOSE out \in {
    IF ~use_token.ok THEN use_token ELSE
    (CHOOSE out \in {
    (CHOOSE out \in {
    IF ~use_tree.ok THEN use_tree ELSE
    (CHOOSE out \in {
    IF ~semi_token.ok THEN semi_token ELSE
    Ok([kind |-> "Use", attrs |-> attrs.v, vis |-> vis.v,
        leading_colon |-> leading_colon.v, tree |-> use_tree.v], semi_token.rest)
      : semi_token \in {ParseTok(use_tree.rest, ";")}} : TRUE)
      : use_tree \in {UseTree_parse(leading_colon.rest)}} : TRUE)
      : leading_colon \in {ParseOpt(use_token.rest, "::")}} : TRUE)
      : use_token \in {ParseTok(vis.rest, "use")}} : TRUE)
      : vis \in {Visibility_parse(attrs.rest)}} : TRUE)
      : attrs \in {Attribute_parse_outer(s)}} : TRUE)

\* The tail `: ty = expr ;` shared by static and const items.
TypedValue_parse(s) ==
    (CHOOSE out \in {
    IF ~colon_token.ok THEN colon_token ELSE
    (CHOOSE out \in {
    IF ~ty.ok THEN ty ELSE
    (CHOOSE out \in {
    IF ~eq_token.ok THEN eq_token ELSE
    (CHOOSE out \in {
    IF ~expr.ok THEN expr ELSE
    (CHOOSE out \in {
    IF ~semi_token.ok THEN semi_token ELSE
    Ok([ty |-> ty.v, expr |-> expr.v], semi_token.rest)
      : semi_token \in {ParseTok(expr.rest, ";")}} : TRUE)
      : expr \in {Expr_parse(eq_token.rest)}} : TRUE)
      : eq_token \in {ParseTok(ty.rest, "=")}} : TRUE)
      : ty \in {Type_parse(colon_token.rest)}} : TRUE)
      : colon_token \in {ParseTok(s, ":")}} : TRUE)

ItemStatic_parse(s) ==
    (CHOOSE out \in {
    (CHOOSE out \in {
    (CHOOSE out \in {
    IF ~static_token.ok THEN static_token ELSE
    (CHOOSE out \in {
    (CHOOSE out \in {
    IF ~ident.ok THEN ident ELSE
    (CHOOSE out \in {
    IF ~value.ok THEN value ELSE
    Ok([kind |-> "Static", attrs |-> attrs.v, vis |-> vis.v,
        mutability |-> mutability.v, ident |-> ident.v, ty |-> value.v.ty,
        expr |-> value.v.expr], value.rest)
      : value \in {TypedValue_parse(ident.rest)}} : TRUE)
      : ident \in {ParseIdent(mutability.rest)}} : TRUE)
      : mutability \in {ParseOpt(static_token.rest, "mut")}} : TRUE)
      : static_token \in {ParseTok(vis.rest, "static")}} : TRUE)
      : vis \in {Visibility_parse(attrs.rest)}} : TRUE)
      : attrs \in {Attribute_parse_outer(s)}} : TRUE)

ItemConst_parse(s) ==
    (CHOOSE out \in {
    (CHOOSE out \in {
    (CHOOSE out \in {
    IF ~const_token.ok THEN const_token ELSE
    (CHOOSE out \in {
    IF ~ident.ok THEN ident ELSE
    (CHOOSE out \in {
    IF ~value.ok THEN value ELSE
    Ok([kind |-> "Const", attrs |-> attrs.v, vis |-> vis.v, ident |-> ident.v,
        ty |-> value.v.ty, expr |-> value.v.expr], value.rest)
      : value \in {TypedValue_parse(ident.rest)}} : TRUE)
      : ident \in {ParseAnyIdent(const_token.rest, Idents \cup {"_"}, <<"identifier", "_">>)}} : TRUE)
      : const_token \in {ParseTok(vis.rest, "const")}} : TRUE)
      : vis \in {Visibility_parse(attrs.rest)}} : TRUE)
      : attrs \in {Attribute_parse_outer(s)}} : TRUE)

\* generics followed by the where clause that is stored in them
GenericsWhere_parse(s) ==
    (CHOOSE out \in {
    IF ~generics.ok THEN generics ELSE
    (CHOOSE out \in {
    IF ~where_clause.ok THEN where_clause ELSE
    Ok([generics.v EXCEPT !.where_clause = where_clause.v], where_clause.rest)
      : where_clause \in {WhereClause_parse(generics.rest)}} : TRUE)
      : generics \in {Generics_parse(s)}} : TRUE)

ItemType_parse(s) ==
    (CHOOSE out \in {
    (CHOOSE out \in {
    (CHOOSE out \in {
    IF ~type_token.ok THEN type_token ELSE
    (CHOOSE out \in {
    IF ~ident.ok THEN ident ELSE
    (CHOOSE out \in {
    IF ~generics.ok THEN generics ELSE
    (CHOOSE out \in {
    IF ~eq_token.ok THEN eq_token ELSE
    (CHOOSE out \in {
    IF ~ty.ok THEN ty ELSE
    (CHOOSE out \in {
    IF ~semi_token.ok THEN semi_token ELSE
    Ok([kind |-> "Type", attrs |-> attrs.v, vis |-> vis.v, ident |-> ident.v,
        generics |-> generics.v, ty |-> ty.v], semi_token.rest)
      : semi_token \in {ParseTok(ty.rest, ";")}} : TRUE)
      : ty \in {Type_parse(eq_token.rest)}} : TRUE)
      : eq_token \in {ParseTok(generics.rest, "=")}} : TRUE)
      : generics \in {GenericsWhere_parse(ident.rest)}} : TRUE)
      : ident \in {ParseIdent(type_token.rest)}} : TRUE)
      : type_token \in {ParseTok(vis.rest, "type")}} : TRUE)
      : vis \in {Visibility_parse(attrs.rest)}} : TRUE)
      : attrs \in {Attribute_parse_outer(s)}} : TRUE)

\* #[cfg(not(feature = "printing"))] item_existential, with its result
\* replaced by an empty token stream: the construct dropped.
item_existential_dropped(s) == Ok(<<>>, s)

\* #[cfg(not(feature = "printing"))] item_existential
item_existential_not_printing(s) ==
    Err(<<"existential type is not supported">>, s)

\* #[cfg(feature = "printing")] item_existential: the Verbatim token stream
item_existential_printing(s) ==
    LET RECURSIVE bounds(_, _)
        bounds(r, first) ==
            IF Peek(r, ";") THEN Ok(<<>>, r)
            ELSE (CHOOSE out \in {
                IF ~plus.ok THEN plus ELSE
                 (CHOOSE out \in {
                 IF ~bound.ok THEN bound ELSE
                 bounds(bound.rest, FALSE)
                   : bound \in {TypeParamBound_parse(plus.rest)}} : TRUE)
              : plus \in {IF first THEN Ok("+", r) ELSE ParseTok(r, "+")}} : TRUE)
    IN
    (CHOOSE out \in {
    (CHOOSE out \in {
    (CHOOSE out \in {
    IF ~existential_token.ok THEN existential_token ELSE
    (CHOOSE out \in {
    IF ~type_token.ok THEN type_token ELSE
    (CHOOSE out \in {
    IF ~ident.ok THEN ident ELSE
    (CHOOSE out \in {
    IF ~generics.ok THEN generics ELSE
    (CHOOSE out \in {
    IF ~colon_token.ok THEN colon_token ELSE
    (CHOOSE out \in {
    IF ~list.ok THEN list ELSE
    (CHOOSE out \in {
    IF ~semi_token.ok THEN semi_token ELSE
    (CHOOSE out \in {
    Ok(attrs_outer(attrs.v) \o vis.v \o <<"existential", "type", ident.v>>
          \o Generics_to_tokens(generics.v) \o WhereClause_to_tokens(generics.v)
          \o (IF bound_toks # <<>> THEN <<":">> \o bound_toks ELSE <<>>)
          \o <<";">>,
       semi_token.rest)
      : bound_toks \in {Consumed(colon_token.rest, list.rest)}} : TRUE)
      : semi_token \in {ParseTok(list.rest, ";")}} : TRUE)
      : list \in {bounds(colon_token.rest, TRUE)}} : TRUE)
      : colon_token \in {ParseTok(generics.rest, ":")}} : TRUE)
      : generics \in {GenericsWhere_parse(ident.rest)}} : TRUE)
      : ident \in {ParseIdent(type_token.rest)}} : TRUE)
      : type_token \in {ParseTok(existential_token.rest, "type")}} : TRUE)
      : existential_token \in {ParseTok(vis.rest, "existential")}} : TRUE)
      : vis \in {Visibility_parse(attrs.rest)}} : TRUE)
      : attrs \in {Attribute_parse_outer(s)}} : TRUE)

\* The item_existential that the build's features select.
item_existential(s) ==
    IF printing THEN item_existential_printing(s)
    ELSE item_existential_not_printing(s)

ItemStruct_parse(s) ==
    (CHOOSE out \in {
    (CHOOSE out \in {
    (CHOOSE out \in {
    IF ~struct_token.ok THEN struct_token ELSE
    (CHOOSE out \in {
    IF ~ident.ok THEN ident ELSE
    (CHOOSE out \in {
    IF ~generics.ok THEN generics ELSE
    (CHOOSE out \in {
    IF ~data.ok THEN data ELSE
    Ok([kind |-> "Struct", attrs |-> attrs.v, vis |-> vis.v, ident |-> ident.v,
        generics |-> [generics.v EXCEPT !.where_clause = data.v.where_clause],
        fields |-> data.v.fields, semi_token |-> data.v.semi_token], data.rest)
      : data \in {data_struct(generics.rest)}} : TRUE)
      : generics \in {Generics_parse(ident.rest)}} : TRUE)
      : ident \in {ParseIdent(struct_token.rest)}} : TRUE)
      : struct_token \in {ParseTok(vis.rest, "struct")}} : TRUE)
      : vis \in {Visibility_parse(attrs.rest)}} : TRUE)
      : attrs \in {Attribute_parse_outer(s)}} : TRUE)

ItemEnum_parse(s) ==
    (CHOOSE out \in {
    (CHOOSE out \in {
    (CHOOSE out \in {
    IF ~enum_token.ok THEN enum_token ELSE
    (CHOOSE out \in {
    IF ~ident.ok THEN ident ELSE
    (CHOOSE out \in {
    IF ~generics.ok THEN generics ELSE
    (CHOOSE out \in {
    IF ~data.ok THEN data ELSE
    Ok([kind |-> "Enum", attrs |-> attrs.v, vis |-> vis.v, ident |-> ident.v,
        generics |-> [generics.v EXCEPT !.where_clause = data.v.where_clause],
        variants |-> data.v.variants], data.rest)
      : data \in {data_enum(generics.rest)}} : TRUE)
      : generics \in {Generics_parse(ident.rest)}} : TRUE)
      : ident \in {ParseIdent(enum_token.rest)}} : TRUE)
      : enum_token \in {ParseTok(vis.rest, "enum")}} : TRUE)
      : vis \in {Visibility_parse(attrs.rest)}} : TRUE)
      : attrs \in {Attribute_parse_outer(s)}} : TRUE)

ItemUnion_parse(s) ==
    (CHOOSE out \in {
    (CHOOSE out \in {
    (CHOOSE out \in {
    IF ~union_token.ok THEN union_token ELSE
    (CHOOSE out \in {
    IF ~ident.ok THEN ident ELSE
    (CHOOSE out \in {
    IF ~generics.ok THEN generics ELSE
    (CHOOSE out \in {
    IF ~data.ok THEN data ELSE
    Ok([kind |-> "Union", attrs |-> attrs.v, vis |-> vis.v, ident |-> ident.v,
        generics |-> [generics.v EXCEPT !.where_clause = data.v.where_clause],
        fields |-> data.v.fields], data.rest)
      : data \in {data_union(generics.rest)}} : TRUE)
      : generics \in {Generics_parse(ident.rest)}} : TRUE)
      : ident \in {ParseIdent(union_token.rest)}} : TRUE)
      : union_token \in {ParseTok(vis.rest, "union")}} : TRUE)
      : vis \in {Visibility_parse(attrs.rest)}} : TRUE)
      : attrs \in {Attribute_parse_outer(s)}} : TRUE)

----------------------------------------------------------------------------
(* item.rs: functions and foreign items *)

Last(q) == q[Len(q)]

get_variadic(inputs) ==
    IF inputs # <<>> /\ Last(inputs).v.kind = "Typed" /\ Last(inputs).v.ty.verbatim
    THEN Some([attrs |-> <<>>, dots |-> "..."])
    ELSE None

FnInputs_parse(s) == parse_terminated(FnArg_parse, s)

\* `( inputs ) output where_clause` of ItemFn, TraitItemMethod and
\* ImplItemMethod, whose parsers repeat the same statements.
FnRest_parse(s) ==
    (CHOOSE out \in {
    IF ~content.ok THEN content ELSE
    (CHOOSE out \in {
    IF ~inputs.ok THEN inputs ELSE
    (CHOOSE out \in {
    IF ~output.ok THEN output ELSE
    (CHOOSE out \in {
    IF ~where_clause.ok THEN where_clause ELSE
    Ok([inputs |-> inputs.v, variadic |-> get_variadic(inputs.v),
        output |-> output.v, where_clause |-> where_clause.v], where_clause.rest)
      : where_clause \in {WhereClause_parse(output.rest)}} : TRUE)
      : output \in {ReturnType_parse(content.rest)}} : TRUE)
      : inputs \in {FnInputs_parse(content.v)}} : TRUE)
      : content \in {Parenthesized(s)}} : TRUE)

\* The signature built without its constness.
Signature_without_constness(constness, asyncness, unsafety, abi, ident, generics, fnrest) ==
    [constness |-> None, asyncness |-> asyncness, unsafety |-> unsafety,
     abi |-> abi, ident |-> ident,
     generics |-> [generics EXCEPT !.where_clause = fnrest.where_clause],
     inputs |-> fnrest.inputs, variadic |-> fnrest.variadic, output |-> fnrest.output]

Signature(constness, asyncness, unsafety, abi, ident, generics, fnrest) ==
    [constness |-> constness, asyncness |-> asyncness, unsafety |-> unsafety,
     abi |-> abi, ident |-> ident,
     generics |-> [generics EXCEPT !.where_clause = fnrest.where_clause],
     inputs |-> fnrest.inputs, variadic |-> fnrest.variadic, output |-> fnrest.output]

\* braced!(content); inner attributes; Block::parse_within
Body_parse(s) ==
    (CHOOSE out \in {
    IF ~content.ok THEN content ELSE
    (CHOOSE out \in {
    (CHOOSE out \in {
    IF ~stmts.ok THEN stmts ELSE
    Ok([inner_attrs |-> inner_attrs.v, stmts |-> stmts.v], content.rest)
      : stmts \in {Block_parse_within(inner_attrs.rest)}} : TRUE)
      : inner_attrs \in {Attribute_parse_inner(content.v)}} : TRUE)
      : content \in {Braced(s)}} : TRUE)

\* ItemFn::parse reading unsafe before async.
ItemFn_parse_unsafe_first(s) ==
    (CHOOSE out \in {
    (CHOOSE out \in {
    (CHOOSE out \in {
    (CHOOSE out \in {
    (CHOOSE out \in {
    (CHOOSE out \in {
    (CHOOSE out \in {
    IF ~fn_token.ok THEN fn_token ELSE
    (CHOOSE out \in {
    IF ~ident.ok THEN ident ELSE
    (CHOOSE out \in {
    IF ~generics.ok THEN generics ELSE
    (CHOOSE out \in {
    IF ~fnrest.ok THEN fnrest ELSE
    (CHOOSE out \in {
    IF ~body.ok THEN body ELSE
    Ok([kind |-> "Fn", attrs |-> private_attrs(outer_attrs.v, body.v.inner_attrs),
        vis |-> vis.v,
        sig |-> Signature(constness.v, asyncness.v, unsafety.v, abi.v, ident.v,
                          generics.v, fnrest.v),
        stmts |-> body.v.stmts], body.rest)
      : body \in {Body_parse(fnrest.rest)}} : TRUE)
      : fnrest \in {FnRest_parse(generics.rest)}} : TRUE)
      : generics \in {Generics_parse(ident.rest)}} : TRUE)
      : ident \in {ParseIdent(fn_token.rest)}} : TRUE)
      : fn_token \in {ParseTok(abi.rest, "fn")}} : TRUE)
      : abi \in {OptAbi_parse(asyncness.rest)}} : TRUE)
      : asyncness \in {ParseOpt(unsafety.rest, "async")}} : TRUE)
      : unsafety \in {ParseOpt(constness.rest, "unsafe")}} : TRUE)
      : constness \in {ParseOpt(vis.rest, "const")}} : TRUE)
      : vis \in {Visibility_parse(outer_attrs.rest)}} : TRUE)
      : outer_attrs \in {Attribute_parse_outer(s)}} : TRUE)

ItemFn_parse(s) ==
    (CHOOSE out \in {
    (CHOOSE out \in {
    (CHOOSE out \in {
    (CHOOSE out \in {
    (CHOOSE out \in {
    (CHOOSE out \in {
    (CHOOSE out \in {
    IF ~fn_token.ok THEN fn_token ELSE
    (CHOOSE out \in {
    IF ~ident.ok THEN ident ELSE
    (CHOOSE out \in {
    IF ~generics.ok THEN generics ELSE
    (CHOOSE out \in {
    IF ~fnrest.ok THEN fnrest ELSE
    (CHOOSE out \in {
    IF ~body.ok THEN body ELSE
    Ok([kind |-> "Fn", attrs |-> private_attrs(outer_attrs.v, body.v.inner_attrs),
        vis |-> vis.v,
        sig |-> Signature(constness.v, asyncness.v, unsafety.v, abi.v, ident.v,
                          generics.v, fnrest.v),
        stmts |-> body.v.stmts], body.rest)
      : body \in {Body_parse(fnrest.rest)}} : TRUE)
      : fnrest \in {FnRest_parse(generics.rest)}} : TRUE)
      : generics \in {Generics_parse(ident.rest)}} : TRUE)
      : ident \in {ParseIdent(fn_token.rest)}} : TRUE)
      : fn_token \in {ParseTok(abi.rest, "fn")}} : TRUE)
      : abi \in {OptAbi_parse(unsafety.rest)}} : TRUE)
      : unsafety \in {ParseOpt(asyncness.rest, "unsafe")}} : TRUE)
      : asyncness \in {ParseOpt(constness.rest, "async")}} : TRUE)
      : constness \in {ParseOpt(vis.rest, "const")}} : TRUE)
      : vis \in {Visibility_parse(outer_attrs.rest)}} : TRUE)
      : outer_attrs \in {Attribute_parse_outer(s)}} : TRUE)

\* The parameter loop of ForeignItemFn::parse; v is [inputs, variadic].
ForeignFnInputs_parse(s) ==
    LET RECURSIVE go(_)
        go(r) ==
            IF r = <<>> THEN Ok([inputs |-> <<>>, variadic |-> None], r)
            ELSE (CHOOSE out \in {
                IF Peek(attrs.rest, "...")
                THEN Ok([inputs |-> <<>>,
                         variadic |-> Some([attrs |-> attrs.v, dots |-> "..."])],
                        Rest(attrs.rest, 1))
                ELSE (CHOOSE out \in {
                    IF ~arg.ok THEN arg ELSE
                     (CHOOSE out \in {
                     IF arg.rest = <<>>
                     THEN Ok([inputs |-> <<[v |-> value, p |-> None]>>,
                              variadic |-> None], arg.rest)
                     ELSE (CHOOSE out \in {
                         IF ~punct.ok THEN punct ELSE
                          (CHOOSE out \in {
                          IF ~more.ok THEN more ELSE
                          Ok([inputs |-> <<[v |-> value, p |-> Some(",")]>>
                                         \o more.v.inputs,
                              variadic |-> more.v.variadic], more.rest)
                            : more \in {go(punct.rest)}} : TRUE)
                       : punct \in {ParseTok(arg.rest, ",")}} : TRUE)
                       : value \in {[arg.v EXCEPT !.attrs = attrs.v]}} : TRUE)
                  : arg \in {fn_arg_typed(attrs.rest)}} : TRUE)
              : attrs \in {Attribute_parse_outer(r)}} : TRUE)
    IN  \* tokens left in the group after `...` are an unexpected-token error
        (CHOOSE out \in {
        IF list.ok /\ list.rest # <<>> THEN Err(<<"unexpected token">>, list.rest)
        ELSE list
          : list \in {go(s)}} : TRUE)

ForeignItemFn_parse(s) ==
    (CHOOSE out \in {
    (CHOOSE out \in {
    (CHOOSE out \in {
    IF ~fn_token.ok THEN fn_token ELSE
    (CHOOSE out \in {
    IF ~ident.ok THEN ident ELSE
    (CHOOSE out \in {
    IF ~generics.ok THEN generics ELSE
    (CHOOSE out \in {
    IF ~content.ok THEN content ELSE
    (CHOOSE out \in {
    IF ~inputs.ok THEN inputs ELSE
    (CHOOSE out \in {
    IF ~output.ok THEN output ELSE
    (CHOOSE out \in {
    IF ~where_clause.ok THEN where_clause ELSE
    (CHOOSE out \in {
    IF ~semi_token.ok THEN semi_token ELSE
    Ok([kind |-> "ForeignFn", attrs |-> attrs.v, vis |-> vis.v,
        sig |-> Signature(None, None, None, None, ident.v, generics.v,
                          [inputs |-> inputs.v.inputs,
                           variadic |-> inputs.v.variadic, output |-> output.v,
                           where_clause |-> where_clause.v])],
       semi_token.rest)
      : semi_token \in {ParseTok(where_clause.rest, ";")}} : TRUE)
      : where_clause \in {WhereClause_parse(output.rest)}} : TRUE)
      : output \in {ReturnType_parse(content.rest)}} : TRUE)
      : inputs \in {ForeignFnInputs_parse(content.v)}} : TRUE)
      : content \in {Parenthesized(generics.rest)}} : TRUE)
      : generics \in {Generics_parse(ident.rest)}} : TRUE)
      : ident \in {ParseIdent(fn_token.rest)}} : TRUE)
      : fn_token \in {ParseTok(vis.rest, "fn")}} : TRUE)
      : vis \in {Visibility_parse(attrs.rest)}} : TRUE)
      : attrs \in {Attribute_parse_outer(s)}} : TRUE)

ForeignItemStatic_parse(s) ==
    (CHOOSE out \in {
    (CHOOSE out \in {
    (CHOOSE out \in {
    IF ~static_token.ok THEN static_token ELSE
    (CHOOSE out \in {
    (CHOOSE out \in {
    IF ~ident.ok THEN ident ELSE
    (CHOOSE out \in {
    IF ~colon_token.ok THEN colon_token ELSE
    (CHOOSE out \in {
    IF ~ty.ok THEN ty ELSE
    (CHOOSE out \in {
    IF ~semi_token.ok THEN semi_token ELSE
    Ok([kind |-> "ForeignStatic", attrs |-> attrs.v, vis |-> vis.v,
        mutability |-> mutability.v, ident |-> ident.v, ty |-> ty.v],
       semi_token.rest)
      : semi_token \in {ParseTok(ty.rest, ";")}} : TRUE)
      : ty \in {Type_parse(colon_token.rest)}} : TRUE)
      : colon_token \in {ParseTok(ident.rest, ":")}} : TRUE)
      : ident \in {ParseIdent(mutability.rest)}} : TRUE)
      : mutability \in {ParseOpt(static_token.rest, "mut")}} : TRUE)
      : static_token \in {ParseTok(vis.rest, "static")}} : TRUE)
      : vis \in {Visibility_parse(attrs.rest)}} : TRUE)
      : attrs \in {Attribute_parse_outer(s)}} : TRUE)

\* ForeignItemType::parse storing an inherited visibility whatever it read.
ForeignItemType_parse_vis_dropped(s) ==
    (CHOOSE out \in {
    (CHOOSE out \in {
    (CHOOSE out \in {
    IF ~type_token.ok THEN type_token ELSE
    (CHOOSE out \in {
    IF ~ident.ok THEN ident ELSE
    (CHOOSE out \in {
    IF ~semi_token.ok THEN semi_token ELSE
    Ok([kind |-> "ForeignType", attrs |-> attrs.v, vis |-> <<>>,
        ident |-> ident.v], semi_token.rest)
      : semi_token \in {ParseTok(ident.rest, ";")}} : TRUE)
      : ident \in {ParseIdent(type_token.rest)}} : TRUE)
      : type_token \in {ParseTok(vis.rest, "type")}} : TRUE)
      : vis \in {Visibility_parse(attrs.rest)}} : TRUE)
      : attrs \in {Attribute_parse_outer(s)}} : TRUE)

ForeignItemType_parse(s) ==
    (CHOOSE out \in {
    (CHOOSE out \in {
    (CHOOSE out \in {
    IF ~type_token.ok THEN type_token ELSE
    (CHOOSE out \in {
    IF ~ident.ok THEN ident ELSE
    (CHOOSE out \in {
    IF ~semi_token.ok THEN semi_token ELSE
    Ok([kind |-> "ForeignType", attrs |-> attrs.v, vis |-> vis.v,
        ident |-> ident.v], semi_token.rest)
      : semi_token \in {ParseTok(ident.rest, ";")}} : TRUE)
      : ident \in {ParseIdent(type_token.rest)}} : TRUE)
      : type_token \in {ParseTok(vis.rest, "type")}} : TRUE)
      : vis \in {Visibility_parse(attrs.rest)}} : TRUE)
      : attrs \in {Attribute_parse_outer(s)}} : TRUE)

\* ForeignItemMacro, TraitItemMacro and ImplItemMacro parse alike:
\* attributes, a Macro, and `;` unless the delimiter is a brace.
\* The macro member parser requiring `;` after every delimiter.
MemberMacro_parse_semi_always(s) ==
    (CHOOSE out \in {
    (CHOOSE out \in {
    IF ~mac.ok THEN mac ELSE
    (CHOOSE out \in {
    IF ~semi_token.ok THEN semi_token ELSE
    Ok([kind |-> "MemberMacro", attrs |-> attrs.v, mac |-> mac.v,
        semi_token |-> Some(";")],
       semi_token.rest)
      : semi_token \in {ParseTok(mac.rest, ";")}} : TRUE)
      : mac \in {Macro_parse(attrs.rest)}} : TRUE)
      : attrs \in {Attribute_parse_outer(s)}} : TRUE)

MemberMacro_parse(s) ==
    (CHOOSE out \in {
    (CHOOSE out \in {
    IF ~mac.ok THEN mac ELSE
    (CHOOSE out \in {
    IF ~semi_token.ok THEN semi_token ELSE
    Ok([kind |-> "MemberMacro", attrs |-> attrs.v, mac |-> mac.v,
        semi_token |-> IF is_brace(mac.v.delimiter) THEN None ELSE Some(";")],
       semi_token.rest)
      : semi_token \in {IF is_brace(mac.v.delimiter) THEN Ok(None, mac.rest)
        ELSE ParseTok(mac.rest, ";")}} : TRUE)
      : mac \in {Macro_parse(attrs.rest)}} : TRUE)
      : attrs \in {Attribute_parse_outer(s)}} : TRUE)

\* The expectations of the macro branch of a dispatch.
MacroStart == Idents \cup {"self", "super", "extern", "crate", "::"}
MacroExpected == <<"identifier", "self", "super", "extern", "crate", "::">>

\* attrs.extend(item_attrs.drain(..)); *item_attrs = attrs, in the wrong order.
Reattach_item_first(attrs, item) ==
    IF ~item.ok THEN item
    ELSE Ok([item.v EXCEPT !.attrs = item.v.attrs \o attrs], item.rest)

Verbatim(tokens) == [kind |-> "Verbatim", tokens |-> tokens]

\* .map(Variant::Verbatim) of a token stream result
MapVerbatim(r) == IF ~r.ok THEN r ELSE Ok(Verbatim(r.v), r.rest)

\* The outcome of a parse that reaches an `unreachable!()` arm: a panic.
Unreachable == [ok |-> FALSE, v |-> <<>>, rest |-> <<>>, exp |-> <<"unreachable!()">>]

\* The match on the parsed item that hands out its attrs: the Verbatim and
\* __Nonexhaustive arms of ForeignItem and TraitItem are unreachable!(), and
\* Item and ImplItem return a Verbatim item before this point.
Reattach(attrs, item) ==
    IF ~item.ok THEN item
    ELSE IF item.v.kind \in {"Verbatim", "__Nonexhaustive"} THEN Unreachable
    ELSE Ok([item.v EXCEPT !.attrs = attrs \o item.v.attrs], item.rest)

ForeignItem_parse(s) ==
    (CHOOSE out \in {
    (CHOOSE out \in {
    (CHOOSE out \in {
    (CHOOSE out \in {
    IF Peek(ahead, "fn") THEN Reattach(attrs.v, ForeignItemFn_parse(input1))
    ELSE IF Peek(ahead, "static") THEN Reattach(attrs.v, ForeignItemStatic_parse(input1))
    ELSE IF Peek(ahead, "type") THEN Reattach(attrs.v, ForeignItemType_parse(input1))
    ELSE IF is_inherited(vis.v) /\ PeekIn(ahead, MacroStart)
    THEN Reattach(attrs.v, MemberMacro_parse(input1))
    ELSE Err(<<"fn", "static", "type">>
             \o (IF is_inherited(vis.v) THEN MacroExpected ELSE <<>>), ahead)
      : ahead \in {vis.rest}} : TRUE)
      : vis \in {Visibility_parse(input1)}} : TRUE)
      : input1 \in {attrs.rest}} : TRUE)
      : attrs \in {Attribute_parse_outer(s)}} : TRUE)

ItemForeignMod_parse(s) ==
    (CHOOSE out \in {
    (CHOOSE out \in {
    IF ~abi.ok THEN abi ELSE
    (CHOOSE out \in {
    IF ~content.ok THEN content ELSE
    (CHOOSE out \in {
    (CHOOSE out \in {
    IF ~items.ok THEN items ELSE
    Ok([kind |-> "ForeignMod", attrs |-> private_attrs(outer_attrs.v, inner_attrs.v),
        abi |-> abi.v, items |-> items.v], content.rest)
      : items \in {parse_all(ForeignItem_parse, inner_attrs.rest)}} : TRUE)
      : inner_attrs \in {Attribute_parse_inner(content.v)}} : TRUE)
      : content \in {Braced(abi.rest)}} : TRUE)
      : abi \in {Abi_parse(outer_attrs.rest)}} : TRUE)
      : outer_attrs \in {Attribute_parse_outer(s)}} : TRUE)

----------------------------------------------------------------------------
(* item.rs: traits and their members *)

\* while !input.peek(stop) { if !bounds.is_empty() { `+` } bound }
\* v is the token sequence of the bounds.
BoundsUntil(s, Stops) ==
    LET RECURSIVE go(_, _)
        go(r, first) ==
            IF PeekIn(r, Stops) THEN Ok(<<>>, r)
            ELSE (CHOOSE out \in {
                IF ~plus.ok THEN plus ELSE
                 (CHOOSE out \in {
                 IF ~bound.ok THEN bound ELSE
                 go(bound.rest, FALSE)
                   : bound \in {TypeParamBound_parse(plus.rest)}} : TRUE)
              : plus \in {IF first THEN Ok("+", r) ELSE ParseTok(r, "+")}} : TRUE)
    IN  (CHOOSE out \in {
        IF ~list.ok THEN list ELSE Ok(Consumed(s, list.rest), list.rest)
      : list \in {go(s, TRUE)}} : TRUE)

\* loop { bound; if stop break; `+`; if stop break }
Supertraits_parse(s) ==
    LET RECURSIVE go(_)
        go(r) ==
            (CHOOSE out \in {
            IF ~bound.ok THEN bound ELSE
            IF PeekIn(bound.rest, {"where", "{"}) THEN bound
            ELSE (CHOOSE out \in {
                IF ~plus.ok THEN plus ELSE
                 IF PeekIn(plus.rest, {"where", "{"}) THEN plus
                 ELSE go(plus.rest)
              : plus \in {ParseTok(bound.rest, "+")}} : TRUE)
              : bound \in {TypeParamBound_parse(r)}} : TRUE)
    IN  (CHOOSE out \in {
        IF ~list.ok THEN list ELSE Ok(Consumed(s, list.rest), list.rest)
      : list \in {go(s)}} : TRUE)

\* loop { if stop break; bound; if stop break; `+` }
AliasBounds_parse(s) ==
    LET RECURSIVE go(_)
        go(r) ==
            IF PeekIn(r, {"where", ";"}) THEN Ok(<<>>, r)
            ELSE (CHOOSE out \in {
                IF ~bound.ok THEN bound ELSE
                 IF PeekIn(bound.rest, {"where", ";"}) THEN bound
                 ELSE (CHOOSE out \in {
                     IF ~plus.ok THEN plus ELSE go(plus.rest)
                   : plus \in {ParseTok(bound.rest, "+")}} : TRUE)
              : bound \in {TypeParamBound_parse(r)}} : TRUE)
    IN  (CHOOSE out \in {
        IF ~list.ok THEN list ELSE Ok(Consumed(s, list.rest), list.rest)
      : list \in {go(s)}} : TRUE)

TraitItemConst_parse(s) ==
    (CHOOSE out \in {
    (CHOOSE out \in {
    IF ~const_token.ok THEN const_token ELSE
    (CHOOSE out \in {
    IF ~ident.ok THEN ident ELSE
    (CHOOSE out \in {
    IF ~colon_token.ok THEN colon_token ELSE
    (CHOOSE out \in {
    IF ~ty.ok THEN ty ELSE
    (CHOOSE out \in {
    IF ~default.ok THEN default ELSE
    (CHOOSE out \in {
    IF ~semi_token.ok THEN semi_token ELSE
    Ok([kind |-> "TraitConst", attrs |-> attrs.v, ident |-> ident.v, ty |-> ty.v,
        default |-> default.v], semi_token.rest)
      : semi_token \in {ParseTok(default.rest, ";")}} : TRUE)
      : default \in {IF ~Peek(ty.rest, "=") THEN Ok(None, ty.rest)
        ELSE (CHOOSE out \in {
            IF ~expr.ok THEN expr ELSE
             Ok(Some(expr.v), expr.rest)
          : expr \in {Expr_parse(Rest(ty.rest, 1))}} : TRUE)}} : TRUE)
      : ty \in {Type_parse(colon_token.rest)}} : TRUE)
      : colon_token \in {ParseTok(ident.rest, ":")}} : TRUE)
      : ident \in {ParseIdent(const_token.rest)}} : TRUE)
      : const_token \in {ParseTok(attrs.rest, "const")}} : TRUE)
      : attrs \in {Attribute_parse_outer(s)}} : TRUE)

TraitItemMethod_parse(s) ==
    (CHOOSE out \in {
    (CHOOSE out \in {
    (CHOOSE out \in {
    (CHOOSE out \in {
    (CHOOSE out \in {
    (CHOOSE out \in {
    IF ~fn_token.ok THEN fn_token ELSE
    (CHOOSE out \in {
    IF ~ident.ok THEN ident ELSE
    (CHOOSE out \in {
    IF ~generics.ok THEN generics ELSE
    (CHOOSE out \in {
    IF ~fnrest.ok THEN fnrest ELSE
    (CHOOSE out \in {
    IF Peek(fnrest.rest, "{") THEN
        (CHOOSE out \in {
        IF ~body.ok THEN body ELSE
        Ok([kind |-> "TraitMethod",
            attrs |-> private_attrs(outer_attrs.v, body.v.inner_attrs),
            sig |-> sig, default |-> Some(body.v.stmts), semi_token |-> None],
           body.rest)
          : body \in {Body_parse(fnrest.rest)}} : TRUE)
    ELSE IF Peek(fnrest.rest, ";")
    THEN Ok([kind |-> "TraitMethod", attrs |-> private_attrs(outer_attrs.v, <<>>),
             sig |-> sig, default |-> None, semi_token |-> Some(";")],
            Rest(fnrest.rest, 1))
    ELSE Err(<<"curly braces", ";">>, fnrest.rest)
      : sig \in {Signature(constness.v, asyncness.v, unsafety.v, abi.v, ident.v,
                  generics.v, [fnrest.v EXCEPT !.variadic = None])}} : TRUE)
      : fnrest \in {FnRest_parse(generics.rest)}} : TRUE)
      : generics \in {Generics_parse(ident.rest)}} : TRUE)
      : ident \in {ParseIdent(fn_token.rest)}} : TRUE)
      : fn_token \in {ParseTok(abi.rest, "fn")}} : TRUE)
      : abi \in {OptAbi_parse(unsafety.rest)}} : TRUE)
      : unsafety \in {ParseOpt(asyncness.rest, "unsafe")}} : TRUE)
      : asyncness \in {ParseOpt(constness.rest, "async")}} : TRUE)
      : constness \in {ParseOpt(outer_attrs.rest, "const")}} : TRUE)
      : outer_attrs \in {Attribute_parse_outer(s)}} : TRUE)

TraitItemType_parse(s) ==
    (CHOOSE out \in {
    (CHOOSE out \in {
    IF ~type_token.ok THEN type_token ELSE
    (CHOOSE out \in {
    IF ~ident.ok THEN ident ELSE
    (CHOOSE out \in {
    IF ~generics.ok THEN generics ELSE
    (CHOOSE out \in {
    (CHOOSE out \in {
    IF ~bounds.ok THEN bounds ELSE
    (CHOOSE out \in {
    IF ~where_clause.ok THEN where_clause ELSE
    (CHOOSE out \in {
    IF ~default.ok THEN default ELSE
    (CHOOSE out \in {
    IF ~semi_token.ok THEN semi_token ELSE
    Ok([kind |-> "TraitType", attrs |-> attrs.v, ident |-> ident.v,
        generics |-> [generics.v EXCEPT !.where_clause = where_clause.v],
        colon_token |-> colon_token.v, bounds |-> bounds.v, default |-> default.v],
       semi_token.rest)
      : semi_token \in {ParseTok(default.rest, ";")}} : TRUE)
      : default \in {IF ~Peek(where_clause.rest, "=") THEN Ok(None, where_clause.rest)
        ELSE (CHOOSE out \in {
            IF ~ty.ok THEN ty ELSE
             Ok(Some(ty.v), ty.rest)
          : ty \in {Type_parse(Rest(where_clause.rest, 1))}} : TRUE)}} : TRUE)
      : where_clause \in {WhereClause_parse(bounds.rest)}} : TRUE)
      : bounds \in {IF IsSome(colon_token.v)
        THEN BoundsUntil(colon_token.rest, {"where", "=", ";"})
        ELSE Ok(<<>>, colon_token.rest)}} : TRUE)
      : colon_token \in {ParseOpt(generics.rest, ":")}} : TRUE)
      : generics \in {Generics_parse(ident.rest)}} : TRUE)
      : ident \in {ParseIdent(type_token.rest)}} : TRUE)
      : type_token \in {ParseTok(attrs.rest, "type")}} : TRUE)
      : attrs \in {Attribute_parse_outer(s)}} : TRUE)

FnStart == {"async", "unsafe", "extern", "fn"}

\* TraitItem::parse with a branch for the `existential type` form.
TraitItem_parse_existential(s) ==
    (CHOOSE out \in {
    (CHOOSE out \in {
    IF Peek(input1, "const") THEN
        (CHOOSE out \in {
        IF PeekIn(ahead, Idents) THEN Reattach(attrs.v, TraitItemConst_parse(input1))
        ELSE IF PeekIn(ahead, FnStart)
        THEN Reattach(attrs.v, TraitItemMethod_parse(input1))
        ELSE Err(<<"identifier", "async", "unsafe", "extern", "fn">>, ahead)
          : ahead \in {Rest(input1, 1)}} : TRUE)
    ELSE IF PeekIn(input1, FnStart) THEN Reattach(attrs.v, TraitItemMethod_parse(input1))
    ELSE IF Peek(input1, "type") THEN Reattach(attrs.v, TraitItemType_parse(input1))
    ELSE IF Peek(input1, "existential")
    THEN Reattach(attrs.v, MapVerbatim(item_existential(input1)))
    ELSE IF PeekIn(input1, MacroStart) THEN Reattach(attrs.v, MemberMacro_parse(input1))
    ELSE Err(<<"const", "async", "unsafe", "extern", "fn", "type">> \o MacroExpected,
             input1)
      : input1 \in {attrs.rest}} : TRUE)
      : attrs \in {Attribute_parse_outer(s)}} : TRUE)

TraitItem_parse(s) ==
    (CHOOSE out \in {
    (CHOOSE out \in {
    IF Peek(input1, "const") THEN
        (CHOOSE out \in {
        IF PeekIn(ahead, Idents) THEN Reattach(attrs.v, TraitItemConst_parse(input1))
        ELSE IF PeekIn(ahead, FnStart)
        THEN Reattach(attrs.v, TraitItemMethod_parse(input1))
        ELSE Err(<<"identifier", "async", "unsafe", "extern", "fn">>, ahead)
          : ahead \in {Rest(input1, 1)}} : TRUE)
    ELSE IF PeekIn(input1, FnStart) THEN Reattach(attrs.v, TraitItemMethod_parse(input1))
    ELSE IF Peek(input1, "type") THEN Reattach(attrs.v, TraitItemType_parse(input1))
    ELSE IF PeekIn(input1, MacroStart) THEN Reattach(attrs.v, MemberMacro_parse(input1))
    ELSE Err(<<"const", "async", "unsafe", "extern", "fn", "type">> \o MacroExpected,
             input1)
      : input1 \in {attrs.rest}} : TRUE)
      : attrs \in {Attribute_parse_outer(s)}} : TRUE)

TraitItems_parse(s) == parse_all(TraitItem_parse, s)

\* v is the fields of ItemTrait set after the generics.
parse_rest_of_trait(s) ==
    (CHOOSE out \in {
    (CHOOSE out \in {
    IF ~supertraits.ok THEN supertraits ELSE
    (CHOOSE out \in {
    IF ~where_clause.ok THEN where_clause ELSE
    (CHOOSE out \in {
    IF ~content.ok THEN content ELSE
    (CHOOSE out \in {
    IF ~items.ok THEN items ELSE
    Ok([colon_token |-> colon_token.v, supertraits |-> supertraits.v,
        where_clause |-> where_clause.v, items |-> items.v], content.rest)
      : items \in {TraitItems_parse(content.v)}} : TRUE)
      : content \in {Braced(where_clause.rest)}} : TRUE)
      : where_clause \in {WhereClause_parse(supertraits.rest)}} : TRUE)
      : supertraits \in {IF IsSome(colon_token.v) THEN Supertraits_parse(colon_token.rest)
        ELSE Ok(<<>>, colon_token.rest)}} : TRUE)
      : colon_token \in {ParseOpt(s, ":")}} : TRUE)

ItemTraitOf(attrs, vis, unsafety, auto_token, ident, generics, rest) ==
    [kind |-> "Trait", attrs |-> attrs, vis |-> vis, unsafety |-> unsafety,
     auto_token |-> auto_token, ident |-> ident,
     generics |-> [generics EXCEPT !.where_clause = rest.where_clause],
     colon_token |-> rest.colon_token, supertraits |-> rest.supertraits,
     items |-> rest.items]

ItemTrait_parse(s) ==
    (CHOOSE out \in {
    (CHOOSE out \in {
    (CHOOSE out \in {
    (CHOOSE out \in {
    (CHOOSE out \in {
    IF ~trait_token.ok THEN trait_token ELSE
    (CHOOSE out \in {
    IF ~ident.ok THEN ident ELSE
    (CHOOSE out \in {
    IF ~generics.ok THEN generics ELSE
    (CHOOSE out \in {
    IF ~rest.ok THEN rest ELSE
    Ok(ItemTraitOf(attrs.v, vis.v, unsafety.v, auto_token.v, ident.v, generics.v,
                   rest.v), rest.rest)
      : rest \in {parse_rest_of_trait(generics.rest)}} : TRUE)
      : generics \in {Generics_parse(ident.rest)}} : TRUE)
      : ident \in {ParseIdent(trait_token.rest)}} : TRUE)
      : trait_token \in {ParseTok(auto_token.rest, "trait")}} : TRUE)
      : auto_token \in {ParseOpt(unsafety.rest, "auto")}} : TRUE)
      : unsafety \in {ParseOpt(vis.rest, "unsafe")}} : TRUE)
      : vis \in {Visibility_parse(attrs.rest)}} : TRUE)
      : attrs \in {Attribute_parse_outer(s)}} : TRUE)

parse_rest_of_trait_alias(s) ==
    (CHOOSE out \in {
    IF ~eq_token.ok THEN eq_token ELSE
    (CHOOSE out \in {
    IF ~bounds.ok THEN bounds ELSE
    (CHOOSE out \in {
    IF ~where_clause.ok THEN where_clause ELSE
    (CHOOSE out \in {
    IF ~semi_token.ok THEN semi_token ELSE
    Ok([bounds |-> bounds.v, where_clause |-> where_clause.v], semi_token.rest)
      : semi_token \in {ParseTok(where_clause.rest, ";")}} : TRUE)
      : where_clause \in {WhereClause_parse(bounds.rest)}} : TRUE)
      : bounds \in {AliasBounds_parse(eq_token.rest)}} : TRUE)
      : eq_token \in {ParseTok(s, "=")}} : TRUE)

parse_trait_or_trait_alias(s) ==
    (CHOOSE out \in {
    (CHOOSE out \in {
    (CHOOSE out \in {
    IF ~trait_token.ok THEN trait_token ELSE
    (CHOOSE out \in {
    IF ~ident.ok THEN ident ELSE
    (CHOOSE out \in {
    IF ~generics.ok THEN generics ELSE
    IF PeekIn(generics.rest, {"{", ":", "where"}) THEN
        (CHOOSE out \in {
        IF ~rest.ok THEN rest ELSE
        Ok(ItemTraitOf(attrs.v, vis.v, None, None, ident.v, generics.v, rest.v),
           rest.rest)
          : rest \in {parse_rest_of_trait(generics.rest)}} : TRUE)
    ELSE IF Peek(generics.rest, "=") THEN
        (CHOOSE out \in {
        IF ~rest.ok THEN rest ELSE
        Ok([kind |-> "TraitAlias", attrs |-> attrs.v, vis |-> vis.v,
            ident |-> ident.v,
            generics |-> [generics.v EXCEPT !.where_clause = rest.v.where_clause],
            bounds |-> rest.v.bounds], rest.rest)
          : rest \in {parse_rest_of_trait_alias(generics.rest)}} : TRUE)
    ELSE Err(<<"curly braces", ":", "where", "=">>, generics.rest)
      : generics \in {Generics_parse(ident.rest)}} : TRUE)
      : ident \in {ParseIdent(trait_token.rest)}} : TRUE)
      : trait_token \in {ParseTok(vis.rest, "trait")}} : TRUE)
      : vis \in {Visibility_parse(attrs.rest)}} : TRUE)
      : attrs \in {Attribute_parse_outer(s)}} : TRUE)

----------------------------------------------------------------------------
(* item.rs: impl blocks and their members *)

ImplItemConst_parse(s) ==
    (CHOOSE out \in {
    (CHOOSE out \in {
    (CHOOSE out \in {
    (CHOOSE out \in {
    IF ~const_token.ok THEN const_token ELSE
    (CHOOSE out \in {
    IF ~ident.ok THEN ident ELSE
    (CHOOSE out \in {
    IF ~value.ok THEN value ELSE
    Ok([kind |-> "ImplConst", attrs |-> attrs.v, vis |-> vis.v,
        defaultness |-> defaultness.v, ident |-> ident.v, ty |-> value.v.ty,
        expr |-> value.v.expr], value.rest)
      : value \in {TypedValue_parse(ident.rest)}} : TRUE)
      : ident \in {ParseIdent(const_token.rest)}} : TRUE)
      : const_token \in {ParseTok(defaultness.rest, "const")}} : TRUE)
      : defaultness \in {ParseOpt(vis.rest, "default")}} : TRUE)
      : vis \in {Visibility_parse(attrs.rest)}} : TRUE)
      : attrs \in {Attribute_parse_outer(s)}} : TRUE)

ImplItemMethod_parse(s) ==
    (CHOOSE out \in {
    (CHOOSE out \in {
    (CHOOSE out \in {
    (CHOOSE out \in {
    (CHOOSE out \in {
    (CHOOSE out \in {
    (CHOOSE out \in {
    (CHOOSE out \in {
    IF ~fn_token.ok THEN fn_token ELSE
    (CHOOSE out \in {
    IF ~ident.ok THEN ident ELSE
    (CHOOSE out \in {
    IF ~generics.ok THEN generics ELSE
    (CHOOSE out \in {
    IF ~fnrest.ok THEN fnrest ELSE
    (CHOOSE out \in {
    IF ~body.ok THEN body ELSE
    Ok([kind |-> "ImplMethod",
        attrs |-> private_attrs(outer_attrs.v, body.v.inner_attrs),
        vis |-> vis.v, defaultness |-> defaultness.v,
        sig |-> Signature(constness.v, asyncness.v, unsafety.v, abi.v, ident.v,
                          generics.v, [fnrest.v EXCEPT !.variadic = None]),
        stmts |-> body.v.stmts], body.rest)
      : body \in {Body_parse(fnrest.rest)}} : TRUE)
      : fnrest \in {FnRest_parse(generics.rest)}} : TRUE)
      : generics \in {Generics_parse(ident.rest)}} : TRUE)
      : ident \in {ParseIdent(fn_token.rest)}} : TRUE)
      : fn_token \in {ParseTok(abi.rest, "fn")}} : TRUE)
      : abi \in {OptAbi_parse(unsafety.rest)}} : TRUE)
      : unsafety \in {ParseOpt(asyncness.rest, "unsafe")}} : TRUE)
      : asyncness \in {ParseOpt(constness.rest, "async")}} : TRUE)
      : constness \in {ParseOpt(defaultness.rest, "const")}} : TRUE)
      : defaultness \in {ParseOpt(vis.rest, "default")}} : TRUE)
      : vis \in {Visibility_parse(outer_attrs.rest)}} : TRUE)
      : outer_attrs \in {Attribute_parse_outer(s)}} : TRUE)

ImplItemType_parse(s) ==
    (CHOOSE out \in {
    (CHOOSE out \in {
    (CHOOSE out \in {
    (CHOOSE out \in {
    IF ~type_token.ok THEN type_token ELSE
    (CHOOSE out \in {
    IF ~ident.ok THEN ident ELSE
    (CHOOSE out \in {
    IF ~generics.ok THEN generics ELSE
    (CHOOSE out \in {
    IF ~eq_token.ok THEN eq_token ELSE
    (CHOOSE out \in {
    IF ~ty.ok THEN ty ELSE
    (CHOOSE out \in {
    IF ~semi_token.ok THEN semi_token ELSE
    Ok([kind |-> "ImplType", attrs |-> attrs.v, vis |-> vis.v,
        defaultness |-> defaultness.v, ident |-> ident.v, generics |-> generics.v,
        ty |-> ty.v], semi_token.rest)
      : semi_token \in {ParseTok(ty.rest, ";")}} : TRUE)
      : ty \in {Type_parse(eq_token.rest)}} : TRUE)
      : eq_token \in {ParseTok(generics.rest, "=")}} : TRUE)
      : generics \in {GenericsWhere_parse(ident.rest)}} : TRUE)
      : ident \in {ParseIdent(type_token.rest)}} : TRUE)
      : type_token \in {ParseTok(defaultness.rest, "type")}} : TRUE)
      : defaultness \in {ParseOpt(vis.rest, "default")}} : TRUE)
      : vis \in {Visibility_parse(attrs.rest)}} : TRUE)
      : attrs \in {Attribute_parse_outer(s)}} : TRUE)

\* ImplItem::parse taking every `default` for the defaultness keyword.
ImplItem_parse_default_without_lookahead(s) ==
    (CHOOSE out \in {
    (CHOOSE out \in {
    (CHOOSE out \in {
    (CHOOSE out \in {
    \* the expectation recorded by a failed peek of `default`
    (CHOOSE out \in {
    (CHOOSE out \in {
    (CHOOSE out \in {
    IF Peek(ahead, "const") THEN
        (CHOOSE out \in {
        IF PeekIn(ahead2, Idents) THEN Reattach(attrs.v, ImplItemConst_parse(input1))
        ELSE IF PeekIn(ahead2, FnStart)
        THEN Reattach(attrs.v, ImplItemMethod_parse(input1))
        ELSE Err(<<"identifier", "unsafe", "async", "extern", "fn">>, ahead2)
          : ahead2 \in {Rest(ahead, 1)}} : TRUE)
    ELSE IF PeekIn(ahead, FnStart) THEN Reattach(attrs.v, ImplItemMethod_parse(input1))
    ELSE IF Peek(ahead, "type") THEN Reattach(attrs.v, ImplItemType_parse(input1))
    ELSE IF plain /\ Peek(ahead, "existential")
    THEN MapVerbatim(item_existential(input1))
    ELSE IF plain /\ PeekIn(ahead, MacroStart)
    THEN Reattach(attrs.v, MemberMacro_parse(input1))
    ELSE Err((IF is_default THEN <<>> ELSE tried)
             \o <<"const", "unsafe", "async", "extern", "fn", "type">>
             \o (IF plain THEN <<"existential">> \o MacroExpected ELSE <<>>),
             ahead)
      : plain \in {is_inherited(vis.v) /\ ~is_default}} : TRUE)
      : ahead \in {IF is_default THEN Rest(vis.rest, 1) ELSE vis.rest}} : TRUE)
      : tried \in {IF Peek(vis.rest, "default") THEN <<>> ELSE <<"default">>}} : TRUE)
      : is_default \in {Peek(vis.rest, "default")}} : TRUE)
      : vis \in {Visibility_parse(input1)}} : TRUE)
      : input1 \in {attrs.rest}} : TRUE)
      : attrs \in {Attribute_parse_outer(s)}} : TRUE)

ImplItem_parse(s) ==
    (CHOOSE out \in {
    (CHOOSE out \in {
    (CHOOSE out \in {
    (CHOOSE out \in {
    \* the expectation recorded by a failed peek of `default`
    (CHOOSE out \in {
    (CHOOSE out \in {
    (CHOOSE out \in {
    IF Peek(ahead, "const") THEN
        (CHOOSE out \in {
        IF PeekIn(ahead2, Idents) THEN Reattach(attrs.v, ImplItemConst_parse(input1))
        ELSE IF PeekIn(ahead2, FnStart)
        THEN Reattach(attrs.v, ImplItemMethod_parse(input1))
        ELSE Err(<<"identifier", "unsafe", "async", "extern", "fn">>, ahead2)
          : ahead2 \in {Rest(ahead, 1)}} : TRUE)
    ELSE IF PeekIn(ahead, FnStart) THEN Reattach(attrs.v, ImplItemMethod_parse(input1))
    ELSE IF Peek(ahead, "type") THEN Reattach(attrs.v, ImplItemType_parse(input1))
    ELSE IF plain /\ Peek(ahead, "existential")
    THEN MapVerbatim(item_existential(input1))
    ELSE IF plain /\ PeekIn(ahead, MacroStart)
    THEN Reattach(attrs.v, MemberMacro_parse(input1))
    ELSE Err((IF is_default THEN <<>> ELSE tried)
             \o <<"const", "unsafe", "async", "extern", "fn", "type">>
             \o (IF plain THEN <<"existential">> \o MacroExpected ELSE <<>>),
             ahead)
      : plain \in {is_inherited(vis.v) /\ ~is_default}} : TRUE)
      : ahead \in {IF is_default THEN Rest(vis.rest, 1) ELSE vis.rest}} : TRUE)
      : tried \in {IF Peek(vis.rest, "default") THEN <<>> ELSE <<"default">>}} : TRUE)
      : is_default \in {Peek(vis.rest, "default") /\ ~Peek2(vis.rest, "!")}} : TRUE)
      : vis \in {Visibility_parse(input1)}} : TRUE)
      : input1 \in {attrs.rest}} : TRUE)
      : attrs \in {Attribute_parse_outer(s)}} : TRUE)

ImplItems_parse(s) == parse_all(ImplItem_parse, s)

HashTokens == OuterAttrs \cup InnerAttrs \cup {"#"}

\* has_generics with a two-token lookahead only.
has_generics_two_tokens(s) ==
    /\ Peek(s, "<")
    /\ \/ Peek2(s, ">")
       \/ Peek2In(s, HashTokens)
       \/ Peek2In(s, Idents) \/ Peek2In(s, Lifetimes)

has_generics(s) ==
    /\ Peek(s, "<")
    /\ \/ Peek2(s, ">")
       \/ Peek2In(s, HashTokens)
       \/ /\ Peek2In(s, Idents) \/ Peek2In(s, Lifetimes)
          /\ Peek3(s, ":") \/ Peek3(s, ",") \/ Peek3(s, ">")

\* The fork that looks for `[!] path for`; v is Option<(polarity, path)>.
ImplTrait_parse(s) ==
    (CHOOSE out \in {
    (CHOOSE out \in {
    IF path.ok /\ Peek(path.rest, "for")
    THEN Ok(Some([polarity |-> polarity.v, path |-> path.v]), Rest(path.rest, 1))
    ELSE Ok(None, s)
      : path \in {Path_parse(polarity.rest)}} : TRUE)
      : polarity \in {ParseOpt(s, "!")}} : TRUE)

ItemImpl_parse(s) ==
    (CHOOSE out \in {
    (CHOOSE out \in {
    (CHOOSE out \in {
    (CHOOSE out \in {
    IF ~impl_token.ok THEN impl_token ELSE
    (CHOOSE out \in {
    IF ~generics.ok THEN generics ELSE
    (CHOOSE out \in {
    (CHOOSE out \in {
    IF ~self_ty.ok THEN self_ty ELSE
    (CHOOSE out \in {
    IF ~where_clause.ok THEN where_clause ELSE
    (CHOOSE out \in {
    IF ~content.ok THEN content ELSE
    (CHOOSE out \in {
    (CHOOSE out \in {
    IF ~items.ok THEN items ELSE
    Ok([kind |-> "Impl", attrs |-> private_attrs(outer_attrs.v, inner_attrs.v),
        defaultness |-> defaultness.v, unsafety |-> unsafety.v,
        generics |-> [generics.v EXCEPT !.where_clause = where_clause.v],
        trait_ |-> trait_.v, self_ty |-> self_ty.v, items |-> items.v],
       content.rest)
      : items \in {ImplItems_parse(inner_attrs.rest)}} : TRUE)
      : inner_attrs \in {Attribute_parse_inner(content.v)}} : TRUE)
      : content \in {Braced(where_clause.rest)}} : TRUE)
      : where_clause \in {WhereClause_parse(self_ty.rest)}} : TRUE)
      : self_ty \in {Type_parse(trait_.rest)}} : TRUE)
      : trait_ \in {ImplTrait_parse(generics.rest)}} : TRUE)
      : generics \in {IF has_generics(impl_token.rest) THEN Generics_parse(impl_token.rest)
        ELSE Ok(NoGenerics, impl_token.rest)}} : TRUE)
      : impl_token \in {ParseTok(unsafety.rest, "impl")}} : TRUE)
      : unsafety \in {ParseOpt(defaultness.rest, "unsafe")}} : TRUE)
      : defaultness \in {ParseOpt(outer_attrs.rest, "default")}} : TRUE)
      : outer_attrs \in {Attribute_parse_outer(s)}} : TRUE)

----------------------------------------------------------------------------
(* item.rs: modules and the dispatch of Item::parse *)

RECURSIVE Item_parse(_)

\* ItemMod::parse reading the `;` without storing it.
ItemMod_parse_semi_unrecorded(s) ==
    (CHOOSE out \in {
    (CHOOSE out \in {
    (CHOOSE out \in {
    IF ~mod_token.ok THEN mod_token ELSE
    (CHOOSE out \in {
    IF ~ident.ok THEN ident ELSE
    IF Peek(ident.rest, ";")
    THEN Ok([kind |-> "Mod", attrs |-> outer_attrs.v, vis |-> vis.v, ident |-> ident.v,
             content |-> None, semi |-> None], Rest(ident.rest, 1))
    ELSE IF Peek(ident.rest, "{") THEN
        (CHOOSE out \in {
        (CHOOSE out \in {
        (CHOOSE out \in {
        IF ~items.ok THEN items ELSE
        Ok([kind |-> "Mod", attrs |-> private_attrs(outer_attrs.v, inner_attrs.v),
            vis |-> vis.v, ident |-> ident.v, content |-> Some(items.v),
            semi |-> None], content.rest)
          : items \in {parse_all(Item_parse, inner_attrs.rest)}} : TRUE)
          : inner_attrs \in {Attribute_parse_inner(content.v)}} : TRUE)
          : content \in {Braced(ident.rest)}} : TRUE)
    ELSE Err(<<";", "curly braces">>, ident.rest)
      : ident \in {ParseIdent(mod_token.rest)}} : TRUE)
      : mod_token \in {ParseTok(vis.rest, "mod")}} : TRUE)
      : vis \in {Visibility_parse(outer_attrs.rest)}} : TRUE)
      : outer_attrs \in {Attribute_parse_outer(s)}} : TRUE)

ItemMod_parse(s) ==
    (CHOOSE out \in {
    (CHOOSE out \in {
    (CHOOSE out \in {
    IF ~mod_token.ok THEN mod_token ELSE
    (CHOOSE out \in {
    IF ~ident.ok THEN ident ELSE
    IF Peek(ident.rest, ";")
    THEN Ok([kind |-> "Mod", attrs |-> outer_attrs.v, vis |-> vis.v, ident |-> ident.v,
             content |-> None, semi |-> Some(";")], Rest(ident.rest, 1))
    ELSE IF Peek(ident.rest, "{") THEN
        (CHOOSE out \in {
        (CHOOSE out \in {
        (CHOOSE out \in {
        IF ~items.ok THEN items ELSE
        Ok([kind |-> "Mod", attrs |-> private_attrs(outer_attrs.v, inner_attrs.v),
            vis |-> vis.v, ident |-> ident.v, content |-> Some(items.v),
            semi |-> None], content.rest)
          : items \in {parse_all(Item_parse, inner_attrs.rest)}} : TRUE)
          : inner_attrs \in {Attribute_parse_inner(content.v)}} : TRUE)
          : content \in {Braced(ident.rest)}} : TRUE)
    ELSE Err(<<";", "curly braces">>, ident.rest)
      : ident \in {ParseIdent(mod_token.rest)}} : TRUE)
      : mod_token \in {ParseTok(vis.rest, "mod")}} : TRUE)
      : vis \in {Visibility_parse(outer_attrs.rest)}} : TRUE)
      : outer_attrs \in {Attribute_parse_outer(s)}} : TRUE)

\* The expectations of the outermost lookahead of Item::parse when no
\* branch is selected: one entry per failed peek, in the order tried.
ItemExpected(ahead, vis) ==
    <<"extern", "use", "static", "const", "unsafe", "async", "fn", "mod", "type",
      "existential", "struct", "enum">>
    \o (IF Peek(ahead, "union") THEN <<>> ELSE <<"union">>)
    \o <<"trait">>
    \o (IF Peek(ahead, "auto") THEN <<>> ELSE <<"auto">>)
    \o <<"impl">>
    \o (IF Peek(ahead, "default") THEN <<>> ELSE <<"default">>)
    \o <<"macro">>
    \o (IF is_inherited(vis) THEN MacroExpected ELSE <<>>)

\* The union branch taken on the keyword alone.
peek_union_keyword_only(ahead) == Peek(ahead, "union")

\* lookahead.peek(Token![union]) && ahead.peek2(Ident)
peek_union(ahead) == Peek(ahead, "union") /\ Peek2In(ahead, Idents)

\* Item::parse from the fork to the `?` that ends the dispatch: input1 is
\* the stream after the outer attributes.
Item_dispatch(input1) ==
    (CHOOSE out \in {
    (CHOOSE out \in {
    (CHOOSE out \in {
    IF Peek(ahead, "extern") THEN
        IF Peek(ahead2, "crate") THEN ItemExternCrate_parse(input1)
        ELSE IF Peek(ahead2, "fn") THEN ItemFn_parse(input1)
        ELSE IF Peek(ahead2, "{") THEN ItemForeignMod_parse(input1)
        ELSE IF PeekIn(ahead2, LitStrs) THEN
            IF Peek(Rest(ahead2, 1), "{") THEN ItemForeignMod_parse(input1)
            ELSE IF Peek(Rest(ahead2, 1), "fn") THEN ItemFn_parse(input1)
            ELSE Err(<<"curly braces", "fn">>, Rest(ahead2, 1))
        ELSE Err(<<"crate", "fn", "curly braces", "string literal">>, ahead2)
    ELSE IF Peek(ahead, "use") THEN ItemUse_parse(input1)
    ELSE IF Peek(ahead, "static") THEN ItemStatic_parse(input1)
    ELSE IF Peek(ahead, "const") THEN
        IF PeekIn(ahead2, Idents) \/ Peek(ahead2, "_") THEN ItemConst_parse(input1)
        ELSE IF PeekIn(ahead2, {"unsafe", "async", "extern", "fn"})
        THEN ItemFn_parse(input1)
        ELSE Err(<<"identifier", "_", "unsafe", "async", "extern", "fn">>, ahead2)
    ELSE IF Peek(ahead, "unsafe") THEN
        IF Peek(ahead2, "trait") \/ (Peek(ahead2, "auto") /\ Peek2(ahead2, "trait"))
        THEN ItemTrait_parse(input1)
        ELSE IF Peek(ahead2, "impl") THEN ItemImpl_parse(input1)
        ELSE IF PeekIn(ahead2, {"async", "extern", "fn"}) THEN ItemFn_parse(input1)
        ELSE Err(<<"trait">> \o (IF Peek(ahead2, "auto") THEN <<>> ELSE <<"auto">>)
                 \o <<"impl", "async", "extern", "fn">>, ahead2)
    ELSE IF Peek(ahead, "async") \/ Peek(ahead, "fn") THEN ItemFn_parse(input1)
    ELSE IF Peek(ahead, "mod") THEN ItemMod_parse(input1)
    ELSE IF Peek(ahead, "type") THEN ItemType_parse(input1)
    ELSE IF Peek(ahead, "existential") THEN MapVerbatim(item_existential(input1))
    ELSE IF Peek(ahead, "struct") THEN ItemStruct_parse(input1)
    ELSE IF Peek(ahead, "enum") THEN ItemEnum_parse(input1)
    ELSE IF peek_union(ahead) THEN ItemUnion_parse(input1)
    ELSE IF Peek(ahead, "trait") THEN parse_trait_or_trait_alias(input1)
    ELSE IF Peek(ahead, "auto") /\ Peek2(ahead, "trait") THEN ItemTrait_parse(input1)
    ELSE IF Peek(ahead, "impl") \/ (Peek(ahead, "default") /\ ~Peek2(ahead, "!"))
    THEN ItemImpl_parse(input1)
    ELSE IF Peek(ahead, "macro") THEN ItemMacro2_parse(input1)
    ELSE IF is_inherited(vis.v) /\ PeekIn(ahead, MacroStart) THEN ItemMacro_parse(input1)
    ELSE Err(ItemExpected(ahead, vis.v), ahead)
      : ahead2 \in {Rest(ahead, 1)}} : TRUE)
      : ahead \in {vis.rest}} : TRUE)
      : vis \in {Visibility_parse(input1)}} : TRUE)

Item_parse(s) ==
    (CHOOSE out \in {
    (CHOOSE out \in {
    IF ~item.ok THEN item ELSE
    IF item.v.kind = "Verbatim" THEN item ELSE Reattach(attrs.v, item)
      : item \in {Item_dispatch(attrs.rest)}} : TRUE)
      : attrs \in {Attribute_parse_outer(s)}} : TRUE)

----------------------------------------------------------------------------
(* item.rs: mod printing *)

\* print.rs: TokensOrDefault prints the token even when the field is None.
TokensOrDefault(opt, tok) == <<tok>>

Variadic_to_tokens(variadic) == attrs_outer(variadic.attrs) \o <<variadic.dots>>

has_variadic(inputs) ==
    /\ inputs # <<>>
    /\ Last(inputs).v.kind = "Typed"
    /\ Last(inputs).v.ty.verbatim
    /\ Last(inputs).v.ty.toks = <<"...">>

empty_or_trailing(ps) == ps = <<>> \/ IsSome(Last(ps).p)

\* The printer that closes every non-empty parameter list with a separator.
Signature_to_tokens_always_trailing(sig) ==
    sig.constness \o sig.asyncness \o sig.unsafety \o sig.abi
    \o <<"fn", sig.ident>> \o Generics_to_tokens(sig.generics)
    \o Surround("(",
           Punctuated_to_tokens(FnArg_to_tokens, sig.inputs)
           \o (IF ~empty_or_trailing(sig.inputs) THEN <<",">> ELSE <<>>),
           ")")
    \o sig.output \o WhereClause_to_tokens(sig.generics)

Signature_to_tokens(sig) ==
    sig.constness \o sig.asyncness \o sig.unsafety \o sig.abi
    \o <<"fn", sig.ident>> \o Generics_to_tokens(sig.generics)
    \o Surround("(",
           Punctuated_to_tokens(FnArg_to_tokens, sig.inputs)
           \o (IF IsSome(sig.variadic) /\ ~has_variadic(sig.inputs)
               THEN (IF ~empty_or_trailing(sig.inputs) THEN <<",">> ELSE <<>>)
                    \o Variadic_to_tokens(sig.variadic[1])
               ELSE <<>>),
           ")")
    \o sig.output \o WhereClause_to_tokens(sig.generics)

ItemExternCrate_to_tokens(t) ==
    attrs_outer(t.attrs) \o t.vis \o <<"extern", "crate", t.ident>> \o t.rename \o <<";">>

RECURSIVE UseTree_to_tokens(_)
UseTree_to_tokens(t) ==
    CASE t.kind = "Path" -> <<t.ident, "::">> \o UseTree_to_tokens(t.tree)
      [] t.kind = "Name" -> <<t.ident>>
      [] t.kind = "Rename" -> <<t.ident, "as", t.rename>>
      [] t.kind = "Glob" -> <<"*">>
      [] t.kind = "Group" ->
            Surround("{", Punctuated_to_tokens(UseTree_to_tokens, t.items), "}")

ItemUse_to_tokens(t) ==
    attrs_outer(t.attrs) \o t.vis \o <<"use">> \o t.leading_colon
    \o UseTree_to_tokens(t.tree) \o <<";">>

ItemStatic_to_tokens(t) ==
    attrs_outer(t.attrs) \o t.vis \o <<"static">> \o t.mutability \o <<t.ident, ":">>
    \o Type_to_tokens(t.ty) \o <<"=">> \o t.expr \o <<";">>

ItemConst_to_tokens(t) ==
    attrs_outer(t.attrs) \o t.vis \o <<"const", t.ident, ":">> \o Type_to_tokens(t.ty)
    \o <<"=">> \o t.expr \o <<";">>

ItemFn_to_tokens(t) ==
    attrs_outer(t.attrs) \o t.vis \o Signature_to_tokens(t.sig)
    \o Surround("{", attrs_inner(t.attrs) \o t.stmts, "}")

ItemType_to_tokens(t) ==
    attrs_outer(t.attrs) \o t.vis \o <<"type", t.ident>> \o Generics_to_tokens(t.generics)
    \o WhereClause_to_tokens(t.generics) \o <<"=">> \o Type_to_tokens(t.ty) \o <<";">>

ItemEnum_to_tokens(t) ==
    attrs_outer(t.attrs) \o t.vis \o <<"enum", t.ident>> \o Generics_to_tokens(t.generics)
    \o WhereClause_to_tokens(t.generics) \o Surround("{", t.variants, "}")

\* The printer that emits semi_token as it is stored, after any body.
ItemStruct_to_tokens_semi_as_stored(t) ==
    attrs_outer(t.attrs) \o t.vis \o <<"struct", t.ident>> \o Generics_to_tokens(t.generics)
    \o CASE t.fields.kind = "Named" ->
                WhereClause_to_tokens(t.generics) \o Fields_to_tokens(t.fields)
                \o t.semi_token
         [] t.fields.kind = "Unnamed" ->
                Fields_to_tokens(t.fields) \o WhereClause_to_tokens(t.generics)
                \o t.semi_token
         [] t.fields.kind = "Unit" ->
                WhereClause_to_tokens(t.generics) \o t.semi_token

ItemStruct_to_tokens(t) ==
    attrs_outer(t.attrs) \o t.vis \o <<"struct", t.ident>> \o Generics_to_tokens(t.generics)
    \o CASE t.fields.kind = "Named" ->
                WhereClause_to_tokens(t.generics) \o Fields_to_tokens(t.fields)
         [] t.fields.kind = "Unnamed" ->
                Fields_to_tokens(t.fields) \o WhereClause_to_tokens(t.generics)
                \o TokensOrDefault(t.semi_token, ";")
         [] t.fields.kind = "Unit" ->
                WhereClause_to_tokens(t.generics) \o TokensOrDefault(t.semi_token, ";")

ItemUnion_to_tokens(t) ==
    attrs_outer(t.attrs) \o t.vis \o <<"union", t.ident>> \o Generics_to_tokens(t.generics)
    \o WhereClause_to_tokens(t.generics) \o Fields_to_tokens(t.fields)

ItemTraitAlias_to_tokens(t) ==
    attrs_outer(t.attrs) \o t.vis \o <<"trait", t.ident>> \o Generics_to_tokens(t.generics)
    \o <<"=">> \o t.bounds \o WhereClause_to_tokens(t.generics) \o <<";">>

\* The printer that closes every macro invocation with a parenthesis.
ItemMacro_to_tokens_paren_close(t) ==
    attrs_outer(t.attrs) \o t.mac.path \o <<"!">> \o t.ident
    \o Surround(t.mac.delimiter, t.mac.tokens, ")")
    \o t.semi_token

ItemMacro_to_tokens(t) ==
    attrs_outer(t.attrs) \o t.mac.path \o <<"!">> \o t.ident
    \o Surround(t.mac.delimiter, t.mac.tokens, CloseOf(t.mac.delimiter))
    \o t.semi_token

ItemMacro2_to_tokens(t) ==
    attrs_outer(t.attrs) \o t.vis \o <<"macro", t.ident>> \o t.rules

TraitItemConst_to_tokens(t) ==
    attrs_outer(t.attrs) \o <<"const", t.ident, ":">> \o Type_to_tokens(t.ty)
    \o (IF IsSome(t.default) THEN <<"=">> \o t.default[1] ELSE <<>>) \o <<";">>

TraitItemMethod_to_tokens(t) ==
    attrs_outer(t.attrs) \o Signature_to_tokens(t.sig)
    \o (IF IsSome(t.default)
        THEN Surround("{", attrs_inner(t.attrs) \o t.default[1], "}")
        ELSE TokensOrDefault(t.semi_token, ";"))

TraitItemType_to_tokens(t) ==
    attrs_outer(t.attrs) \o <<"type", t.ident>> \o Generics_to_tokens(t.generics)
    \o (IF t.bounds # <<>> THEN TokensOrDefault(t.colon_token, ":") \o t.bounds ELSE <<>>)
    \o WhereClause_to_tokens(t.generics)
    \o (IF IsSome(t.default) THEN <<"=">> \o Type_to_tokens(t.default[1]) ELSE <<>>)
    \o <<";">>

\* TraitItemMacro, ImplItemMacro and ForeignItemMacro print alike.
MemberMacro_to_tokens(t) ==
    attrs_outer(t.attrs) \o Macro_to_tokens(t.mac) \o t.semi_token

ImplItemConst_to_tokens(t) ==
    attrs_outer(t.attrs) \o t.vis \o t.defaultness \o <<"const", t.ident, ":">>
    \o Type_to_tokens(t.ty) \o <<"=">> \o t.expr \o <<";">>

ImplItemMethod_to_tokens(t) ==
    attrs_outer(t.attrs) \o t.vis \o t.defaultness \o Signature_to_tokens(t.sig)
    \o Surround("{", attrs_inner(t.attrs) \o t.stmts, "}")

ImplItemType_to_tokens(t) ==
    attrs_outer(t.attrs) \o t.vis \o t.defaultness \o <<"type", t.ident>>
    \o Generics_to_tokens(t.generics) \o WhereClause_to_tokens(t.generics)
    \o <<"=">> \o Type_to_tokens(t.ty) \o <<";">>

ForeignItemFn_to_tokens(t) ==
    attrs_outer(t.attrs) \o t.vis \o Signature_to_tokens(t.sig) \o <<";">>

ForeignItemStatic_to_tokens(t) ==
    attrs_outer(t.attrs) \o t.vis \o <<"static">> \o t.mutability \o <<t.ident, ":">>
    \o Type_to_tokens(t.ty) \o <<";">>

ForeignItemType_to_tokens(t) ==
    attrs_outer(t.attrs) \o t.vis \o <<"type", t.ident, ";">>

\* impl ToTokens for TraitItem, ImplItem and ForeignItem
Member_to_tokens(t) ==
    CASE t.kind = "TraitConst" -> TraitItemConst_to_tokens(t)
      [] t.kind = "TraitMethod" -> TraitItemMethod_to_tokens(t)
      [] t.kind = "TraitType" -> TraitItemType_to_tokens(t)
      [] t.kind = "MemberMacro" -> MemberMacro_to_tokens(t)
      [] t.kind = "ImplConst" -> ImplItemConst_to_tokens(t)
      [] t.kind = "ImplMethod" -> ImplItemMethod_to_tokens(t)
      [] t.kind = "ImplType" -> ImplItemType_to_tokens(t)
      [] t.kind = "ForeignFn" -> ForeignItemFn_to_tokens(t)
      [] t.kind = "ForeignStatic" -> ForeignItemStatic_to_tokens(t)
      [] t.kind = "ForeignType" -> ForeignItemType_to_tokens(t)
      [] t.kind = "Verbatim" -> t.tokens

ItemForeignMod_to_tokens(t) ==
    attrs_outer(t.attrs) \o t.abi
    \o Surround("{", attrs_inner(t.attrs) \o append_all(Member_to_tokens, t.items), "}")

ItemTrait_to_tokens(t) ==
    attrs_outer(t.attrs) \o t.vis \o t.unsafety \o t.auto_token \o <<"trait", t.ident>>
    \o Generics_to_tokens(t.generics)
    \o (IF t.supertraits # <<>>
        THEN TokensOrDefault(t.colon_token, ":") \o t.supertraits ELSE <<>>)
    \o WhereClause_to_tokens(t.generics)
    \o Surround("{", append_all(Member_to_tokens, t.items), "}")

ItemImpl_to_tokens(t) ==
    attrs_outer(t.attrs) \o t.defaultness \o t.unsafety \o <<"impl">>
    \o Generics_to_tokens(t.generics)
    \o (IF IsSome(t.trait_)
        THEN t.trait_[1].polarity \o t.trait_[1].path \o <<"for">> ELSE <<>>)
    \o Type_to_tokens(t.self_ty) \o WhereClause_to_tokens(t.generics)
    \o Surround("{", attrs_inner(t.attrs) \o append_all(Member_to_tokens, t.items), "}")

RECURSIVE Item_to_tokens(_)

ItemMod_to_tokens(t) ==
    attrs_outer(t.attrs) \o t.vis \o <<"mod", t.ident>>
    \o (IF IsSome(t.content)
        THEN Surround("{", attrs_inner(t.attrs)
                           \o append_all(Item_to_tokens, t.content[1]), "}")
        ELSE TokensOrDefault(t.semi, ";"))

Item_to_tokens(t) ==
    CASE t.kind = "ExternCrate" -> ItemExternCrate_to_tokens(t)
      [] t.kind = "Use" -> ItemUse_to_tokens(t)
      [] t.kind = "Static" -> ItemStatic_to_tokens(t)
      [] t.kind = "Const" -> ItemConst_to_tokens(t)
      [] t.kind = "Fn" -> ItemFn_to_tokens(t)
      [] t.kind = "Mod" -> ItemMod_to_tokens(t)
      [] t.kind = "ForeignMod" -> ItemForeignMod_to_tokens(t)
      [] t.kind = "Type" -> ItemType_to_tokens(t)
      [] t.kind = "Struct" -> ItemStruct_to_tokens(t)
      [] t.kind = "Enum" -> ItemEnum_to_tokens(t)
      [] t.kind = "Union" -> ItemUnion_to_tokens(t)
      [] t.kind = "Trait" -> ItemTrait_to_tokens(t)
      [] t.kind = "TraitAlias" -> ItemTraitAlias_to_tokens(t)
      [] t.kind = "Impl" -> ItemImpl_to_tokens(t)
      [] t.kind = "Macro" -> ItemMacro_to_tokens(t)
      [] t.kind = "Macro2" -> ItemMacro2_to_tokens(t)
      [] t.kind = "Verbatim" -> t.tokens

----------------------------------------------------------------------------
(* Token buffers handed to FnArg::parse and Receiver::parse *)

MaxArgLen == 4
MaxBorrowToks == 5

ArgAlphabet == {"&", "'a", "mut", "self", ".", ":", ",", "x", "T"}
BorrowAlphabet == {"mut", "a", "b", ","}

SeqsUpTo(S, n) == UNION {[1..k -> S] : k \in 0..n}

PartialInputs ==
    {pre \o <<"self", ".", "{">> \o es \o <<"}">> \o post :
        pre \in {<<>>, <<"mut">>, <<"#[A1]">>},
        es \in SeqsUpTo(BorrowAlphabet, MaxBorrowToks),
        post \in {<<>>, <<",">>, <<":", "T">>}}

TypedInputs ==
    {at \o p \o c \o t :
        at \in {<<>>, <<"#[A1]">>},
        p \in {<<>>, <<"x">>, <<"self">>, <<"_">>, <<"mut", "x">>, <<"mut", "self">>,
               <<"&", "x">>, <<"&", "mut", "self">>, <<"self", ".", "{", "a", "}">>},
        c \in {<<>>, <<":">>},
        t \in {<<>>, <<"T">>, <<"T", "<", "x", ">">>, <<"Box", "<", "Self", ">">>,
               <<"...">>, <<"&", "T">>}}

FnArgInputs == SeqsUpTo(ArgAlphabet, MaxArgLen) \cup PartialInputs \cup TypedInputs

InitFnArg ==
    /\ input \in FnArgInputs
    /\ entry = "none"
    /\ phase = "lexed"
    /\ res = NoRes
    /\ tree = NoTree
    /\ printed = <<>>
    /\ res2 = NoRes
    /\ derive = NoDerive
    /\ printing = TRUE
    /\ receiver = None

ParseFnArg ==
    /\ phase = "lexed"
    /\ entry' = "FnArg"
    /\ res' = FnArg_parse(input)
    /\ tree' = IF res'.ok THEN res'.v ELSE NoTree
    /\ phase' = "parsed"
    /\ UNCHANGED <<input, printed, res2, derive, printing, receiver>>

ParseReceiver ==
    /\ phase = "lexed"
    /\ entry' = "Receiver"
    /\ res' = Receiver_parse(input)
    /\ tree' = IF res'.ok THEN res'.v ELSE NoTree
    /\ phase' = "parsed"
    /\ UNCHANGED <<input, printed, res2, derive, printing, receiver>>

PrintFnArg ==
    /\ phase = "parsed"
    /\ entry \in {"FnArg", "Receiver"}
    /\ res.ok
    /\ printed' = FnArg_to_tokens(tree)
    /\ phase' = "printed"
    /\ UNCHANGED <<input, entry, res, tree, res2, derive, printing, receiver>>

NextFnArg == ParseFnArg \/ ParseReceiver \/ PrintFnArg

SpecFnArg == InitFnArg /\ [][NextFnArg]_vars

----------------------------------------------------------------------------
(* Token buffers handed to Item::parse, TraitItem::parse and ImplItem::parse *)

\* Declarations without their attributes and visibility: every item form of
\* the grammar, with and without its optional parts, and some near misses.
ItemBodies ==
    {<<"fn", "f", "(", ")">>,
     <<"m", "!", "{", "}", ";">>,
     <<"m", "!", "[", "]">>,
     <<"mod", "m">>,
     <<"mod", "m", "{", "fn", "f", "(", ")", "}">>,
     <<"extern", "crate", "Foo", ";">>,
     <<"extern", "crate", "self", "as", "Bar", ";">>,
     <<"extern", "crate", "Foo", "as", "_", ";">>,
     <<"extern", "crate", "Foo">>,
     <<"use", "Foo", ";">>,
     <<"use", "::", "a", "::", "b", ";">>,
     <<"use", "a", "::", "{", "b", ",", "x", "as", "_", ",", "*", "}", ";">>,
     <<"use", "a", "::", "*", ";">>,
     <<"use", "a", "::", "{", "b", ",", "}", ";">>,
     <<"use", ";">>,
     <<"static", "x", ":", "T", "=", "1", ";">>,
     <<"static", "mut", "x", ":", "&", "'a", "T", "=", "e", ";">>,
     <<"const", "x", ":", "T", "=", "1", ";">>,
     <<"const", "_", ":", "T", "=", "e", ";">>,
     <<"const", "x", ":", "T", ";">>,
     <<"type", "Foo", "=", "T", ";">>,
     <<"type", "Foo", "<", "T", ">", "where", "T", ":", "Bound", "=", "Box", "<", "T", ">", ";">>,
     <<"existential", "type", "Foo", ":", "Bound", ";">>,
     <<"existential", "type", "Foo", ":", ";">>,
     <<"existential", "type", "Foo", ":", "Bound", "+", "'a", ";">>,
     <<"existential", "type", "Foo", "<", "T", ">", ":", "Bound", ";">>,
     <<"existential", "type", "Foo", ";">>,
     <<"struct", "Foo", ";">>,
     <<"struct", "Foo", "{", "a", ":", "T", "}">>,
     <<"struct", "Foo", "{", "a", ":", "T", ",", "pub", "b", ":", "T", ",", "}">>,
     <<"struct", "Foo", "(", "T", ")", ";">>,
     <<"struct", "Foo", "(", "T", ")">>,
     <<"struct", "Foo", "<", "T", ">", "(", "T", ")", "where", "T", ":", "Bound", ";">>,
     <<"struct", "Foo", "<", "T", ">", "where", "T", ":", "Bound", "{", "a", ":", "T", "}">>,
     <<"struct", "Foo", "{", "a", ":", "T", "}", ";">>,
     <<"enum", "Foo", "{", "}">>,
     <<"enum", "Foo", "{", "a", ",", "b", "(", "T", ")", "=", "1", "}">>,
     <<"enum", "Foo", "<", "T", ">", "where", "T", ":", "Bound", "{", "a", "{", "x", ":", "T", "}", ",", "}">>,
     <<"union", "Foo", "{", "a", ":", "T", "}">>,
     <<"union", "Foo", "<", "T", ">", "{", "a", ":", "T", ",", "b", ":", "T", "}">>,
     <<"union", "!", "(", ")", ";">>,
     <<"union", "!", "{", "}">>,
     <<"union", "!", "(", ")">>,
     <<"union", "Foo", ";">>,
     <<"trait", "Foo", "{", "}">>,
     <<"unsafe", "trait", "Foo", "{", "}">>,
     <<"auto", "trait", "Foo", "{", "}">>,
     <<"unsafe", "auto", "trait", "Foo", "{", "}">>,
     <<"trait", "Foo", ":", "Bound", "+", "'a", "{", "}">>,
     <<"trait", "Foo", ":", "Bound", "+", "{", "}">>,
     <<"trait", "Foo", "<", "T", ">", ":", "Bound", "where", "T", ":", "Bound", "{", "}">>,
     <<"trait", "Foo", ":", "{", "}">>,
     <<"trait", "Foo", "{", "type", "x", ":", ";", "}">>,
     <<"trait", "Foo", "{", "type", "x", ":", "Bound", "=", "T", ";", "const", "x", ":", "T", ";", "const", "x", ":", "T", "=", "1", ";", "}">>,
     <<"trait", "Foo", "{", "fn", "f", "(", "&", "self", ")", ";", "fn", "f", "(", ")", "{", "stmt", "}", "m", "!", "(", ")", ";", "m", "!", "{", "}", "}">>,
     <<"trait", "Foo", "{", "fn", "f", "(", "x", ":", "...", ")", ";", "}">>,
     <<"trait", "Foo", "=", "Bound", ";">>,
     <<"trait", "Foo", "=", "Bound", "+", ";">>,
     <<"trait", "Foo", "=", ";">>,
     <<"trait", "Foo", "<", "T", ">", "=", "Bound", "+", "'a", "where", "T", ":", "Bound", ";">>,
     <<"trait", "Foo", "=", "Bound">>,
     <<"impl", "Foo", "{", "}">>,
     <<"impl", "Trait", "for", "Foo", "{", "}">>,
     <<"impl", "!", "Trait", "for", "Foo", "{", "}">>,
     <<"unsafe", "impl", "Trait", "for", "Foo", "{", "}">>,
     <<"default", "impl", "Trait", "for", "Foo", "{", "}">>,
     <<"default", "unsafe", "impl", "<", "T", ">", "Trait", "<", "T", ">", "for", "Foo", "where", "T", ":", "Bound", "{", "}">>,
     <<"impl", "<", "T", ":", "Bound", ">", "Trait", "for", "Type", "{", "}">>,
     <<"impl", "<", "T", "as", "Trait", ">", "::", "Type", "{", "}">>,
     <<"impl", "Foo", "{", "pub", "const", "x", ":", "T", "=", "1", ";", "default", "type", "T", "=", "Foo", ";", "fn", "f", "(", "self", ")", "{", "}", "}">>,
     <<"impl", "Foo", "{", "existential", "type", "T", ":", "Bound", ";", "m", "!", "(", ")", ";", "default", "!", "{", "}", "}">>,
     <<"impl", "Foo", "{", "#[A1]", "existential", "type", "T", ":", "Bound", ";", "}">>,
     <<"impl", "Foo", "{", "existential", "type", "T", ":", ";", "}">>,
     <<"impl", "Foo", "{", "fn", "f", "(", "T", "<", "x", ">", ")", "{", "}", "}">>,
     <<"impl", "Foo", "{", "pub", "m", "!", "(", ")", ";", "}">>,
     <<"m", "!", "(", ")", ";">>,
     <<"m", "!", "{", "}">>,
     <<"m", "!", "[", "x", "]", ";">>,
     <<"m", "!", "{", "}", ";">>,
     <<"Foo", "::", "m", "!", "x", "{", "a", "}">>,
     <<"::", "m", "!", "(", ")", ";">>,
     <<"self", "::", "m", "!", "(", ")", ";">>,
     <<"m", "!", "(", ")">>,
     <<"default", "!", "(", ")", ";">>,
     <<"auto", "!", "{", "}">>,
     <<"macro", "m", "(", "x", ")", "{", "stmt", "}">>,
     <<"macro", "m", "{", "stmt", "}">>,
     <<"macro", "m", "(", "x", ")">>,
     <<"mod", "m", ";">>,
     <<"mod", "m", "{", "}">>,
     <<"mod", "m", "{", "fn", "f", "(", ")", "{", "}", "struct", "Foo", ";", "}">>,
     <<"mod", "m", "{", "mod", "m", "{", "#![A3]", "}", "}">>,
     <<"mod", "m", "{", "existential", "type", "Foo", ":", "Bound", ";", "}">>,
     <<"mod", "m">>,
     <<"extern", "\"C\"", "{", "}">>,
     <<"extern", "{", "fn", "f", "(", "x", ":", "T", ",", "...", ")", ";", "static", "mut", "x", ":", "T", ";", "type", "Foo", ";", "m", "!", "(", ")", ";", "}">>,
     <<"extern", "\"C\"", "{", "pub", "fn", "f", "(", "...", ")", ";", "}">>,
     <<"extern", "\"C\"", "{", "fn", "f", "(", "#[A1]", "...", ")", "->", "T", ";", "}">>,
     <<"extern", "\"C\"", "{", "fn", "f", "(", "x", ":", "T", ")", ";", "m", "!", "{", "}", "}">>,
     <<"extern", "\"C\"", "{", "fn", "f", "(", "x", ":", "...", ")", ";", "}">>,
     <<"extern", "\"C\"", "{", "fn", "f", "(", "...", ",", "x", ":", "T", ")", ";", "}">>,
     <<"impure", "fn">>,
     <<"impure", "fn", "f", "(", ")", "{", "}">>,
     <<";">>}

\* Parameter lists.
FnParams ==
    {<<>>,
     <<"x", ":", "T">>,
     <<"&", "mut", "self">>,
     <<"self", ",", "x", ":", "T">>,
     <<"&", "'a", "self", ",", "mut", "x", ":", "&", "T", ",">>,
     <<"self", ".", "{", "mut", "a", ",", "b", "}", ",">>,
     <<"self", ".", "{", "a", ",", "}", ",">>,
     <<"self", ":", "Box", "<", "Self", ">">>,
     <<"mut", "self", ":", "Box", "<", "Self", ">">>,
     <<"&", "self", ":", "T">>,
     <<"x", ":", "T", ",", "self">>,
     <<"x", ":", "T", ",", "self", ":", "T">>,
     <<"T", "<", "x", ">">>,
     <<"x", ":", "...">>,
     <<"x", ":", "T", ",", "b", ":", "...">>,
     <<"x", ":", "T", ",", "#[A2]", "b", ":", "...">>,
     <<"#[A1]", "x", ":", "T", ",", "#[A2]", "_", ":", "T">>,
     <<"x", ":", "T", ",", "...">>,
     <<"x", ":", "...", ",", "b", ":", "T">>}

\* Members of a trait, without attributes.
TraitItemBodies ==
    {<<"fn", "f", "(", ")">>,
     <<"m", "!", "{", "}", ";">>,
     <<"m", "!", "[", "x", "]", ";">>,
     <<"type", "x", ":", ";">>,
     <<"type", "x", ";">>,
     <<"type", "x", ":", "Bound", ";">>,
     <<"type", "x", ":", "Bound", "+", "'a", "=", "T", ";">>,
     <<"type", "x", "<", "T", ">", ":", "Bound", "where", "T", ":", "Bound", ";">>,
     <<"type", "x", "=", "T", ";">>,
     <<"const", "x", ":", "T", ";">>,
     <<"const", "x", ":", "T", "=", "1", ";">>,
     <<"const", "_", ":", "T", ";">>,
     <<"m", "!", "(", ")", ";">>,
     <<"m", "!", "{", "}">>,
     <<"m", "!", "(", ")">>,
     <<"pub", "fn", "f", "(", ")", ";">>,
     <<"existential", "type", "T", ":", "Bound", ";">>,
     <<";">>}

\* Members of an impl block, without attributes, visibility and `default`.
ImplItemBodies ==
    {<<"fn", "f", "(", ")">>,
     <<"m", "!", "{", "}", ";">>,
     <<"m", "!", "(", ")">>,
     <<"const", "x", ":", "T", "=", "1", ";">>,
     <<"const", "x", ":", "T", ";">>,
     <<"type", "T", "=", "Foo", ";">>,
     <<"type", "T", "<", "x", ">", "where", "x", ":", "Bound", "=", "Foo", ";">>,
     <<"existential", "type", "T", ":", "Bound", ";">>,
     <<"existential", "type", "T", ":", ";">>,
     <<"existential", "type", "T", ":", "Bound", "+", "'a", ";">>,
     <<"m", "!", "(", ")", ";">>,
     <<"m", "!", "{", "}">>,
     <<"default", "!", "{", "}">>,
     <<"default", "!", "(", ")", ";">>,
     <<"fn", "f", "(", ")", ";">>,
     <<";">>}

OuterSeqs == {<<>>} \cup {<<a>> : a \in OuterAttrs} \cup {<<a, b>> : a, b \in OuterAttrs}
InnerSeqs == {<<>>} \cup {<<a>> : a \in InnerAttrs} \cup {<<a, b>> : a, b \in InnerAttrs}

AttrPrefixes == {<<>>, <<"#[A1]">>, <<"#[A1]", "#[A2]">>}
VisPrefixes == {<<>>, <<"pub">>, <<"crate">>}
Prefixes == AttrPrefixes \cup VisPrefixes \cup {<<"#[A1]", "#[A2]", "pub">>}

\* The modifiers of a function in every combination of the grammar's order,
\* and two combinations out of order.
FnModifiers ==
    {c \o a \o u \o e :
        c \in {<<>>, <<"const">>}, a \in {<<>>, <<"async">>}, u \in {<<>>, <<"unsafe">>},
        e \in {<<>>, <<"extern">>, <<"extern", "\"C\"">>}}
    \cup {<<"unsafe", "async">>, <<"async", "const">>}

FnBodies ==
    {<<"{", "}">>, <<"{", "#![A3]", "stmt", "}">>,
     <<"->", "T", "where", "T", ":", "Bound", "{", "stmt", "stmt", "}">>, <<";">>}

FnDecls ==
    {m \o <<"fn", "f", "(">> \o p \o <<")">> \o b :
        m \in FnModifiers, p \in FnParams, b \in FnBodies}
    \cup {<<"fn", "f", "<", "T", ":", "Bound", ">", "(", "x", ":", "T", ")", "{", "}">>}

MethodDecls ==
    {m \o <<"fn", "f", "(">> \o p \o <<")">> \o b :
        m \in FnModifiers,
        p \in {<<>>, <<"&", "mut", "self">>, <<"x", ":", "...">>, <<"T", "<", "x", ">">>},
        b \in FnBodies}

\* Body-bearing declarations split at the place of the inner attributes.
ItemBodyShapes ==
    {<<<<"fn", "f", "(", ")", "{">>, <<"}">>>>,
     <<<<"pub", "fn", "f", "(", ")", "{">>, <<"stmt", "}">>>>,
     <<<<"mod", "m", "{">>, <<"}">>>>,
     <<<<"mod", "m", "{">>, <<"fn", "f", "(", ")", "{", "}", "}">>>>,
     <<<<"extern", "\"C\"", "{">>, <<"}">>>>,
     <<<<"extern", "{">>, <<"fn", "f", "(", ")", ";", "}">>>>,
     <<<<"impl", "Foo", "{">>, <<"}">>>>,
     <<<<"unsafe", "impl", "Trait", "for", "Foo", "{">>,
       <<"fn", "f", "(", ")", "{", "}", "}">>>>}

TraitItemBodyShapes == {<<<<"fn", "f", "(", ")", "{">>, <<"stmt", "}">>>>}

ImplItemBodyShapes ==
    {<<<<"fn", "f", "(", ")", "{">>, <<"stmt", "}">>>>,
     <<<<"pub", "default", "fn", "f", "(", ")", "{">>, <<"}">>>>}

BodyShapes(e) ==
    CASE e = "Item" -> ItemBodyShapes
      [] e = "ForeignItem" -> {}
      [] e = "TraitItem" -> TraitItemBodyShapes
      [] e = "ImplItem" -> ImplItemBodyShapes
      [] e = "FnArg" -> {}

AttrBodyInputs(shapes) ==
    {oa \o sh[1] \o ia \o sh[2] : oa \in OuterSeqs, ia \in InnerSeqs, sh \in shapes}

ItemInputs ==
    {p \o d : p \in Prefixes, d \in ItemBodies \cup FnDecls}
    \cup AttrBodyInputs(ItemBodyShapes)

TraitItemInputs ==
    {a \o d : a \in AttrPrefixes, d \in TraitItemBodies \cup MethodDecls}
    \cup AttrBodyInputs(TraitItemBodyShapes)

ImplItemInputs ==
    {a \o v \o df \o d :
        a \in {<<>>, <<"#[A1]">>}, v \in VisPrefixes, df \in {<<>>, <<"default">>},
        d \in ImplItemBodies \cup MethodDecls}
    \cup AttrBodyInputs(ImplItemBodyShapes)

\* Members of a foreign block, without attributes and visibility.
ForeignItemBodies ==
    {<<"m", "!", "{", "}", ";">>,
     <<"m", "!", "[", "]">>,
     <<"fn", "f", "(", "x", ":", "T", ",", "...", ")", ";">>,
     <<"fn", "f", "(", "#[A1]", "...", ")", "->", "T", ";">>,
     <<"fn", "f", "(", "x", ":", "...", ")", ";">>,
     <<"fn", "f", "(", ")", "{", "}">>,
     <<"static", "mut", "x", ":", "T", ";">>,
     <<"static", "x", ":", "T", "=", "1", ";">>,
     <<"type", "Foo", ";">>,
     <<"type", "Foo", "=", "T", ";">>,
     <<"m", "!", "(", ")", ";">>,
     <<"m", "!", "{", "}">>,
     <<"existential", "type", "T", ":", "Bound", ";">>,
     <<"const", "x", ":", "T", ";">>,
     <<";">>}

ForeignItemInputs ==
    {a \o v \o d : a \in AttrPrefixes, v \in VisPrefixes, d \in ForeignItemBodies}

InputsFor(e) ==
    CASE e = "Item" -> ItemInputs
      [] e = "ForeignItem" -> ForeignItemInputs
      [] e = "TraitItem" -> TraitItemInputs
      [] e = "ImplItem" -> ImplItemInputs
      [] e = "FnArg" -> PartialInputs \cup TypedInputs

\* impl From<ItemStruct>, From<ItemEnum>, From<ItemUnion> for DeriveInput
DeriveInput_from_ItemStruct(item) ==
    [kind |-> "DeriveInput", attrs |-> item.attrs, vis |-> item.vis,
     ident |-> item.ident, generics |-> item.generics,
     data |-> [kind |-> "Struct", fields |-> item.fields,
               semi_token |-> item.semi_token]]

DeriveInput_from_ItemEnum(item) ==
    [kind |-> "DeriveInput", attrs |-> item.attrs, vis |-> item.vis,
     ident |-> item.ident, generics |-> item.generics,
     data |-> [kind |-> "Enum", variants |-> item.variants]]

DeriveInput_from_ItemUnion(item) ==
    [kind |-> "DeriveInput", attrs |-> item.attrs, vis |-> item.vis,
     ident |-> item.ident, generics |-> item.generics,
     data |-> [kind |-> "Union", fields |-> item.fields]]

\* The From impl the compiler selects for the item's type.
DeriveInput_from(item) ==
    CASE item.kind = "Struct" -> DeriveInput_from_ItemStruct(item)
      [] item.kind = "Enum" -> DeriveInput_from_ItemEnum(item)
      [] item.kind = "Union" -> DeriveInput_from_ItemUnion(item)

\* The conversion with the struct's semi_token left out.
Item_from_DeriveInput_without_semi(d) ==
    CASE d.data.kind = "Struct" ->
            [kind |-> "Struct", attrs |-> d.attrs, vis |-> d.vis, ident |-> d.ident,
             generics |-> d.generics, fields |-> d.data.fields, semi_token |-> None]
      [] d.data.kind = "Enum" ->
            [kind |-> "Enum", attrs |-> d.attrs, vis |-> d.vis, ident |-> d.ident,
             generics |-> d.generics, variants |-> d.data.variants]
      [] d.data.kind = "Union" ->
            [kind |-> "Union", attrs |-> d.attrs, vis |-> d.vis, ident |-> d.ident,
             generics |-> d.generics, fields |-> d.data.fields]

\* impl From<DeriveInput> for Item
Item_from_DeriveInput(d) ==
    CASE d.data.kind = "Struct" ->
            [kind |-> "Struct", attrs |-> d.attrs, vis |-> d.vis, ident |-> d.ident,
             generics |-> d.generics, fields |-> d.data.fields,
             semi_token |-> d.data.semi_token]
      [] d.data.kind = "Enum" ->
            [kind |-> "Enum", attrs |-> d.attrs, vis |-> d.vis, ident |-> d.ident,
             generics |-> d.generics, variants |-> d.data.variants]
      [] d.data.kind = "Union" ->
            [kind |-> "Union", attrs |-> d.attrs, vis |-> d.vis, ident |-> d.ident,
             generics |-> d.generics, fields |-> d.data.fields]

Parse(e, s) ==
    CASE e = "Item" -> Item_parse(s)
      [] e = "ForeignItem" -> ForeignItem_parse(s)
      [] e = "TraitItem" -> TraitItem_parse(s)
      [] e = "ImplItem" -> ImplItem_parse(s)
      [] e = "FnArg" -> FnArg_parse(s)

ToTokens(e, t) ==
    CASE e = "Item" -> Item_to_tokens(t)
      [] e = "FnArg" -> FnArg_to_tokens(t)
      [] OTHER -> Member_to_tokens(t)

Init ==
    /\ entry \in {"Item", "ForeignItem", "TraitItem", "ImplItem", "FnArg"}
    /\ input \in InputsFor(entry)
    /\ phase = "lexed"
    /\ res = NoRes
    /\ tree = NoTree
    /\ printed = <<>>
    /\ res2 = NoRes
    /\ derive = NoDerive
    /\ printing = TRUE
    /\ receiver = None

ParseItem ==
    /\ phase = "lexed" /\ entry = "Item"
    /\ res' = Item_parse(input)
    /\ tree' = IF res'.ok THEN res'.v ELSE NoTree
    /\ phase' = "parsed"
    /\ UNCHANGED <<input, entry, printed, res2, derive, printing, receiver>>

ParseTraitItem ==
    /\ phase = "lexed" /\ entry = "TraitItem"
    /\ res' = TraitItem_parse(input)
    /\ tree' = IF res'.ok THEN res'.v ELSE NoTree
    /\ phase' = "parsed"
    /\ UNCHANGED <<input, entry, printed, res2, derive, printing, receiver>>

ParseForeignItem ==
    /\ phase = "lexed" /\ entry = "ForeignItem"
    /\ res' = ForeignItem_parse(input)
    /\ tree' = IF res'.ok THEN res'.v ELSE NoTree
    /\ phase' = "parsed"
    /\ UNCHANGED <<input, entry, printed, res2, derive, printing, receiver>>

ParseImplItem ==
    /\ phase = "lexed" /\ entry = "ImplItem"
    /\ res' = ImplItem_parse(input)
    /\ tree' = IF res'.ok THEN res'.v ELSE NoTree
    /\ phase' = "parsed"
    /\ UNCHANGED <<input, entry, printed, res2, derive, printing, receiver>>

\* FnArg::parse called on a parameter's tokens
ParseParameter ==
    /\ phase = "lexed" /\ entry = "FnArg"
    /\ res' = FnArg_parse(input)
    /\ tree' = IF res'.ok THEN res'.v ELSE NoTree
    /\ phase' = "parsed"
    /\ UNCHANGED <<input, entry, printed, res2, derive, printing, receiver>>

\* sig.receiver() called on the signature of a parsed function
CallReceiver ==
    /\ phase = "parsed" /\ res.ok
    /\ tree.kind \in {"Fn", "ForeignFn", "TraitMethod", "ImplMethod"}
    /\ receiver' = Signature_receiver(tree.sig)
    /\ phase' = "asked"
    /\ UNCHANGED <<input, entry, res, tree, printed, res2, derive, printing>>

\* A consumer builds a tree by explicit field construction: the parsed tree
\* with the terminator field set the other way.
Rewrite ==
    /\ phase = "parsed" /\ res.ok
    /\ tree.kind \in {"Struct", "Macro", "MemberMacro", "TraitMethod", "Mod"}
    /\ tree' = IF tree.kind = "Mod"
               THEN [tree EXCEPT !.semi = IF IsSome(@) THEN None ELSE Some(";")]
               ELSE [tree EXCEPT !.semi_token = IF IsSome(@) THEN None ELSE Some(";")]
    /\ phase' = "built"
    /\ UNCHANGED <<input, entry, res, printed, res2, derive, printing, receiver>>

PrintItem ==
    /\ phase \in {"parsed", "built"} /\ res.ok
    /\ printed' = ToTokens(entry, tree)
    /\ phase' = "printed"
    /\ UNCHANGED <<input, entry, res, tree, res2, derive, printing, receiver>>

ReparseItem ==
    /\ phase = "printed"
    /\ res2' = Parse(entry, printed)
    /\ phase' = "reparsed"
    /\ UNCHANGED <<input, entry, res, tree, printed, derive, printing, receiver>>

\* DeriveInput::from(item) for a struct, an enum or a union
IntoDeriveInput ==
    /\ phase \in {"parsed", "built"} /\ res.ok
    /\ tree.kind \in {"Struct", "Enum", "Union"}
    /\ derive' = DeriveInput_from(tree)
    /\ phase' = "derived"
    /\ UNCHANGED <<input, entry, res, tree, printed, res2, printing, receiver>>

\* Item::from(derive_input)
IntoItem ==
    /\ phase = "derived"
    /\ tree' = Item_from_DeriveInput(derive)
    /\ phase' = "projected"
    /\ UNCHANGED <<input, entry, res, printed, res2, derive, printing, receiver>>

Next ==
    \/ ParseItem
    \/ ParseForeignItem
    \/ ParseTraitItem
    \/ ParseImplItem
    \/ ParseParameter
    \/ CallReceiver
    \/ Rewrite
    \/ PrintItem
    \/ ReparseItem
    \/ IntoDeriveInput
    \/ IntoItem

Spec == Init /\ [][Next]_vars

----------------------------------------------------------------------------
(* Token buffers that exercise the dispatch of Item::parse: every pair of  *)
(* leading tokens, after every visibility, before every tail.              *)

HeadTokens ==
    {"extern", "use", "static", "const", "unsafe", "async", "fn", "mod", "type",
     "existential", "struct", "enum", "union", "trait", "auto", "impl", "default",
     "macro", "Foo", "impure", "self", "crate", "::", "!", "_", ";", "\"C\""}

Heads == {<<>>} \cup {<<a>> : a \in HeadTokens} \cup {<<a, b>> : a, b \in HeadTokens}

Tails ==
    {<<>>,
     <<":", "T", "=", "1", ";">>,
     <<"f", "(", ")", "{", "}">>,
     <<"fn", "f", "(", ")", "{", "}">>,
     <<"Foo", "{", "}">>,
     <<"trait", "Foo", "{", "}">>,
     <<"Foo", ";">>,
     <<"Foo", "{", "a", ":", "T", "}">>,
     <<"(", ")", ";">>,
     <<"{", "}">>,
     <<"Foo", "=", "T", ";">>,
     <<"Foo", ":", "Bound", ";">>,
     <<"impl", "Foo", "{", "}">>,
     <<"{", "a", ":", "T", "}">>}

\* What follows the two tokens after `impl <`.
ImplTails ==
    {<<"Bound", ">", "Trait", "for", "Type", "{", "}">>,
     <<">", "Foo", "{", "}">>,
     <<"Foo", "{", "}">>,
     <<"{", "}">>,
     <<"Trait", ">", "::", "Type", "{", "}">>,
     <<"T", ">", "Foo", "{", "}">>,
     <<"as", "Trait", ">", "::", "Type", "{", "}">>,
     <<"T", "as", "Trait", ">", "::", "Type", "{", "}">>,
     <<":", "Bound", ">", "Foo", "{", "}">>,
     <<"'a", ">", "Foo", "{", "}">>}

ImplSecond == {">", "#[A1]", "T", "'a", "Self", "&"}
ImplThird == {":", ",", ">", "as", "T", "Foo", "::"}

ImplGenericsInputs ==
    {p \o <<"impl", "<", x, y>> \o t :
        p \in {<<>>, <<"#[A1]">>, <<"unsafe">>}, x \in ImplSecond, y \in ImplThird,
        t \in ImplTails}

DispatchInputs ==
    {v \o h \o t : v \in VisPrefixes, h \in Heads, t \in Tails} \cup ImplGenericsInputs

InitDispatch ==
    /\ entry = "Item"
    /\ input \in DispatchInputs
    /\ phase = "lexed"
    /\ res = NoRes
    /\ tree = NoTree
    /\ printed = <<>>
    /\ res2 = NoRes
    /\ derive = NoDerive
    /\ printing = TRUE
    /\ receiver = None

NextDispatch ==
    \/ ParseItem
    \/ PrintItem

SpecDispatch == InitDispatch /\ [][NextDispatch]_vars

----------------------------------------------------------------------------
(* A build without the printing feature: only the parsers exist. *)

InitNoPrinting ==
    /\ entry \in {"Item", "ImplItem"}
    /\ input \in InputsFor(entry)
    /\ phase = "lexed"
    /\ res = NoRes
    /\ tree = NoTree
    /\ printed = <<>>
    /\ res2 = NoRes
    /\ derive = NoDerive
    /\ printing = FALSE
    /\ receiver = None

NextNoPrinting == ParseItem \/ ParseImplItem

SpecNoPrinting == InitNoPrinting /\ [][NextNoPrinting]_vars

----------------------------------------------------------------------------
(* Claims about Item::parse and the printer (Spec) *)

\* C1: round trip.  For every token sequence that Item::parse accepts,
\* printing the parsed Item gives back that token sequence.
C1_RoundTrip ==
    (entry = "Item" /\ phase = "printed" /\ res.rest = <<>> /\ tree = res.v) =>
        printed = input

\* Item variants none of whose fields can hold Verbatim content.
VerbatimFreeKinds ==
    {"ExternCrate", "Use", "Static", "Const", "Type", "Struct", "Enum", "Union",
     "TraitAlias", "Macro", "Macro2"}

\* C2: idempotence.  For every Item tree without Verbatim content, parsed or
\* built field by field (a named-field struct with semi_token present, a
\* parenthesized macro with semi_token absent), Item::parse of the printed
\* tree succeeds and returns a tree equal to it.
C2_Idempotence ==
    (entry = "Item" /\ phase = "reparsed" /\ tree.kind \in VerbatimFreeKinds) =>
        res2.ok /\ res2.v = tree

\* C3: attribute order.  A body-bearing declaration parsed through
\* Item::parse, TraitItem::parse or ImplItem::parse, with outer attributes
\* before it and inner attributes inside its body, has as attrs the outer
\* attributes followed by the inner ones, each in source order.
C3_AttributeOrder ==
    phase = "parsed" =>
        \A sh \in BodyShapes(entry), oa \in OuterSeqs, ia \in InnerSeqs :
            input = oa \o sh[1] \o ia \o sh[2] =>
                res.ok /\ res.rest = <<>> /\ res.v.attrs = oa \o ia

C3_Witness ==
    /\ phase = "parsed" /\ entry = "ImplItem"
    /\ res.ok /\ tree.kind = "ImplMethod"
    /\ tree.attrs = <<"#[A1]", "#[A2]", "#![A3]", "#![A4]">>

----------------------------------------------------------------------------
(* Claims about the dispatch of Item::parse (SpecDispatch) *)

\* The stream at the first token after the outer attributes and the
\* visibility, the visibility, and the stream one token further.
Lead == Visibility_parse(Attribute_parse_outer(input).rest).rest
LeadVis == Visibility_parse(Attribute_parse_outer(input).rest).v
Following == Rest(Lead, 1)

\* C4: after `const`, an identifier or `_` selects Item::Const; `unsafe`,
\* `async`, `extern` or `fn` selects the function parser, whose success is
\* Item::Fn with sig.constness present; any other token is an error.
\* `const fn f() {}` is Item::Fn with constness set.
C4_ConstDispatch ==
    (phase = "parsed" /\ Peek(Lead, "const")) =>
        /\ (PeekIn(Following, Idents \cup {"_"}) /\ res.ok) => res.v.kind = "Const"
        /\ (PeekIn(Following, {"unsafe", "async", "extern", "fn"}) /\ res.ok) =>
                res.v.kind = "Fn" /\ IsSome(res.v.sig.constness)
        /\ ~PeekIn(Following, Idents \cup {"_", "unsafe", "async", "extern", "fn"}) =>
                ~res.ok
        /\ input = <<"const", "fn", "f", "(", ")", "{", "}">> =>
                /\ res.ok /\ res.rest = <<>> /\ res.v.kind = "Fn"
                /\ res.v.sig.constness = Some("const")
        /\ input = <<"const", "_", ":", "T", "=", "1", ";">> =>
                res.ok /\ res.rest = <<>> /\ res.v.kind = "Const"

C4_Witness ==
    /\ phase = "parsed"
    /\ input = <<"const", "fn", "f", "(", ")", "{", "}">>
    /\ res.ok /\ res.v.kind = "Fn" /\ IsSome(res.v.sig.constness)

TraitFollows ==
    Peek(Following, "trait") \/ (Peek(Following, "auto") /\ Peek(Rest(Following, 1), "trait"))

\* C5: after `unsafe`, `trait` or `auto trait` selects Item::Trait with
\* unsafety present, `impl` selects Item::Impl with unsafety present,
\* `extern` or `fn` selects Item::Fn with unsafety present, and any other
\* token is an error.  `unsafe trait Foo {}` is Item::Trait with unsafety set.
C5_UnsafeDispatch ==
    (phase = "parsed" /\ Peek(Lead, "unsafe")) =>
        /\ (TraitFollows /\ res.ok) => res.v.kind = "Trait" /\ IsSome(res.v.unsafety)
        /\ (Peek(Following, "impl") /\ res.ok) =>
                res.v.kind = "Impl" /\ IsSome(res.v.unsafety)
        /\ (PeekIn(Following, {"extern", "fn"}) /\ res.ok) =>
                res.v.kind = "Fn" /\ IsSome(res.v.sig.unsafety)
        /\ ~(TraitFollows \/ PeekIn(Following, {"impl", "extern", "fn"})) => ~res.ok
        /\ input = <<"unsafe", "trait", "Foo", "{", "}">> =>
                /\ res.ok /\ res.rest = <<>> /\ res.v.kind = "Trait"
                /\ res.v.unsafety = Some("unsafe")
        /\ input = <<"unsafe", "impl", "Foo", "{", "}">> =>
                res.ok /\ res.rest = <<>> /\ res.v.kind = "Impl"
        /\ input = <<"unsafe", "fn", "f", "(", ")", "{", "}">> =>
                res.ok /\ res.rest = <<>> /\ res.v.kind = "Fn"

C5_Witness ==
    /\ phase = "parsed"
    /\ input = <<"unsafe", "trait", "Foo", "{", "}">>
    /\ res.ok /\ res.v.kind = "Trait" /\ IsSome(res.v.unsafety)

\* C6: `union` selects Item::Union exactly when the token after it is an
\* identifier; `union` followed by `!`, with inherited visibility, gives
\* Item::Macro with the path `union`.  `union Foo { a: T }` is a union and
\* `union!();` is a macro invocation named union.
C6_UnionDispatch ==
    (phase = "parsed" /\ Peek(Lead, "union")) =>
        /\ (PeekIn(Following, Idents) /\ res.ok) => res.v.kind = "Union"
        /\ (res.ok /\ res.v.kind = "Union") => PeekIn(Following, Idents)
        /\ (Peek(Following, "!") /\ is_inherited(LeadVis) /\ res.ok) =>
                res.v.kind = "Macro" /\ res.v.mac.path = <<"union">>
        /\ input = <<"union", "Foo", "{", "a", ":", "T", "}">> =>
                res.ok /\ res.rest = <<>> /\ res.v.kind = "Union"
        /\ input = <<"union", "!", "(", ")", ";">> =>
                /\ res.ok /\ res.rest = <<>> /\ res.v.kind = "Macro"
                /\ res.v.mac.path = <<"union">>

C6_Witness ==
    /\ phase = "parsed"
    /\ input = <<"union", "!", "(", ")", ";">>
    /\ res.ok /\ res.v.kind = "Macro" /\ res.v.mac.path = <<"union">>

\* The stream after `impl`, and the lookahead condition on it.
AfterImpl ==
    LET s == Attribute_parse_outer(input).rest
        d == IF Peek(s, "default") THEN Rest(s, 1) ELSE s
        u == IF Peek(d, "unsafe") THEN Rest(d, 1) ELSE d
    IN  IF Peek(u, "impl") THEN Rest(u, 1) ELSE <<>>

GenericsOpen(s) ==
    /\ Len(s) >= 2 /\ s[1] = "<"
    /\ \/ s[2] = ">"
       \/ s[2] \in HashTokens
       \/ s[2] \in Idents \cup Lifetimes /\ Len(s) >= 3 /\ s[3] \in {":", ",", ">"}

\* C7: a `<` directly after `impl` is parsed as a generic-parameter list
\* exactly when the next token is `>` or `#`, or an identifier or lifetime
\* followed by `:`, `,` or `>`; otherwise the generics are empty and the `<`
\* is left for the type parser.  `impl<T: Bound> Trait for Type {}` has the
\* generics `<T: Bound>` and a trait_ without negation.
C7_ImplGenerics ==
    (phase = "parsed" /\ Peek(AfterImpl, "<")) =>
        /\ (res.ok /\ res.v.kind = "Impl") =>
                /\ GenericsOpen(AfterImpl) <=> res.v.generics.params # <<>>
                /\ ~GenericsOpen(AfterImpl) => res.v.self_ty.toks[1] = "<"
        /\ input = <<"impl", "<", "T", ":", "Bound", ">", "Trait", "for", "Type", "{", "}">> =>
                /\ res.ok /\ res.rest = <<>> /\ res.v.kind = "Impl"
                /\ res.v.generics.params = <<"<", "T", ":", "Bound", ">">>
                /\ res.v.trait_ = Some([polarity |-> None, path |-> <<"Trait">>])
        /\ input = <<"impl", "<", "T", "as", "Trait", ">", "::", "Type", "{", "}">> =>
                /\ res.ok /\ res.rest = <<>> /\ res.v.kind = "Impl"
                /\ res.v.generics.params = <<>>
                /\ res.v.self_ty.toks = <<"<", "T", "as", "Trait", ">", "::", "Type">>

C7_Witness ==
    /\ phase = "parsed"
    /\ input = <<"impl", "<", "T", ":", "Bound", ">", "Trait", "for", "Type", "{", "}">>
    /\ res.ok /\ res.v.kind = "Impl" /\ res.v.generics.params # <<>>
    /\ IsSome(res.v.trait_)

----------------------------------------------------------------------------
(* Claims about FnArg::parse and Receiver::parse (SpecFnArg) *)

\* The receiver forms, written out as token sequences.
BorrowEntries == {[mutability |-> mt, ident |-> id] :
                    mt \in {None, Some("mut")}, id \in {"a", "b"}}

RECURSIVE RenderBorrows(_, _)
RenderBorrows(es, trailing) ==
    IF es = <<>> THEN <<>>
    ELSE es[1].mutability \o <<es[1].ident>>
         \o (IF Len(es) > 1 \/ trailing THEN <<",">> ELSE <<>>)
         \o RenderBorrows(Tail(es), trailing)

BorrowCases == {c \in SeqsUpTo(BorrowEntries, MaxBorrowToks) \X BOOLEAN :
                    c[2] => c[1] # <<>>}
BorrowContents == {RenderBorrows(c[1], c[2]) : c \in BorrowCases}

PlainReceiverForms ==
    {<<"mut", "self">>, <<"self">>}
    \cup {<<"&">> \o l \o mt \o <<"self">> :
            l \in {<<>>, <<"'a">>}, mt \in {<<>>, <<"mut">>}}

IsPrefix(p, s) == Len(p) <= Len(s) /\ SubSeq(s, 1, Len(p)) = p

\* Length of the receiver form a parameter starts with, 0 when it starts
\* with none.  A "." after `self` opens the borrow set `.{...}`.
ReceiverFormLen(s) ==
    IF IsPrefix(<<"self", ".">>, s) THEN
        IF Peek(Rest(s, 2), "{") /\ Braced(Rest(s, 2)).v \in BorrowContents
        THEN CloseIndex(s, 4, 1) ELSE 0
    ELSE IF \E f \in PlainReceiverForms : IsPrefix(f, s)
    THEN Len(CHOOSE f \in PlainReceiverForms : IsPrefix(f, s))
    ELSE 0

Param == Rest(input, Len(TakeWhileIn(input, OuterAttrs)))

\* C8: FnArg::parse returns FnArg::Receiver exactly when the parameter
\* starts with `mut self`, `& [lifetime] [mut] self`, or `self` optionally
\* followed by `.{...}`, and the token after that form is not `:`.
\* `&mut self` gives Reference::Full with no lifetime and mutability present,
\* `self` gives Reference::None(None), `mut self` gives Reference::None(Some),
\* and `self: Box<Self>` gives FnArg::Typed.
C8_ReceiverDetection ==
    (phase = "parsed" /\ entry = "FnArg") =>
        LET k == ReceiverFormLen(Param)
            isReceiver == res.ok /\ res.v.kind = "Receiver"
        IN  /\ isReceiver <=> (k > 0 /\ ~Peek(Rest(Param, k), ":"))
            /\ isReceiver => res.rest = Rest(Param, k)
            /\ (isReceiver /\ IsPrefix(<<"&", "mut", "self">>, Param)) =>
                    res.v.reference =
                        [kind |-> "Full", lifetime |-> None, mutability |-> Some("mut")]
            /\ (isReceiver /\ IsPrefix(<<"self">>, Param) /\ k = 1) =>
                    res.v.reference = [kind |-> "None", mutability |-> None]
            /\ (isReceiver /\ IsPrefix(<<"mut", "self">>, Param)) =>
                    res.v.reference = [kind |-> "None", mutability |-> Some("mut")]
            /\ Param = <<"self", ":", "Box", "<", "Self", ">">> =>
                    res.ok /\ res.v.kind = "Typed" /\ res.rest = <<>>

C8_Witness ==
    /\ phase = "parsed" /\ entry = "FnArg"
    /\ input = <<"&", "mut", "self">>
    /\ res.ok /\ res.v.kind = "Receiver" /\ res.v.reference.kind = "Full"

BorrowList(ps) == [i \in 1..Len(ps) |-> ps[i].v]

\* C9: for every receiver `self . { e1, ..., en }` with each ei of the form
\* `[mut] ident`, with or without a trailing comma, Receiver::parse yields
\* Reference::Partial with the same entries in the same order and with the
\* same mutability flags, and printing the Receiver gives back the input
\* tokens.  `self.{mut a, b}` yields [(mut, a), (none, b)].
C9_PartialBorrowRoundTrip ==
    (entry = "Receiver" /\ phase \in {"parsed", "printed"}
        /\ IsPrefix(<<"self", ".", "{">>, input) /\ input[Len(input)] = "}"
        /\ SubSeq(input, 4, Len(input) - 1) \in BorrowContents) =>
        LET c == CHOOSE c \in BorrowCases :
                    RenderBorrows(c[1], c[2]) = SubSeq(input, 4, Len(input) - 1)
        IN  /\ res.ok /\ res.rest = <<>>
            /\ res.v.reference.kind = "Partial"
            /\ BorrowList(res.v.reference.borrows) = c[1]
            /\ input = <<"self", ".", "{", "mut", "a", ",", "b", "}">> =>
                BorrowList(res.v.reference.borrows) =
                    <<[mutability |-> Some("mut"), ident |-> "a"],
                      [mutability |-> None, ident |-> "b"]>>
            /\ phase = "printed" => printed = input

C9_Witness ==
    /\ entry = "Receiver" /\ phase = "printed"
    /\ input = <<"self", ".", "{", "mut", "a", ",", "b", "}">>
    /\ res.v.reference.kind = "Partial"
    /\ printed = input

----------------------------------------------------------------------------
(* Claim about the errors of Item::parse (SpecDispatch) *)

Range(q) == {q[i] : i \in DOMAIN q}

\* C10: error aggregation.  Item::parse on the two tokens `impure fn`, which
\* match no declaration form, returns an error that lists all the top-level
\* expectations tried at that position.
C10_ErrorAggregation ==
    (phase = "parsed" /\ input = <<"impure", "fn">>) =>
        ~res.ok /\ Range(ItemExpected(Lead, LeadVis)) \subseteq Range(res.exp)

----------------------------------------------------------------------------
(* Claims about Verbatim items (Spec) *)

\* C11: Verbatim preservation.  Whenever Item::parse or ImplItem::parse
\* returns a Verbatim variant, its token stream equals the whole token
\* sequence the call consumed, outer attributes collected before the
\* dispatch and the `:` before an empty bound list included.
C11_VerbatimPreservation ==
    (phase = "parsed" /\ entry \in {"Item", "ImplItem"} /\ res.ok
        /\ res.v.kind = "Verbatim") =>
        res.v.tokens = Consumed(input, res.rest)

----------------------------------------------------------------------------
(* Claims about function parameters (Spec) *)

\* The input closes a parameter list with a parameter `pat : ...`.
DotsLast ==
    \E i \in 3..(Len(input) - 1) :
        input[i] = "..." /\ input[i - 1] = ":" /\ input[i + 1] = ")"

DotsIndex ==
    CHOOSE i \in 3..(Len(input) - 1) :
        input[i] = "..." /\ input[i - 1] = ":" /\ input[i + 1] = ")"

\* The run of outer attributes that ends at position j of the input.
RECURSIVE AttrsBefore(_)
AttrsBefore(j) ==
    IF j >= 1 /\ input[j] \in OuterAttrs
    THEN AttrsBefore(j - 1) \o <<input[j]>>
    ELSE <<>>

\* C12: variadic detection.  In ItemFn::parse, when the last parameter has
\* a type that is exactly `...`, the parameter becomes the signature's
\* variadic marker, does not remain a typed parameter of sig.inputs, and the
\* Variadic carries the attributes parsed for that parameter.
C12_VariadicDetection ==
    (phase = "parsed" /\ entry = "Item" /\ res.ok /\ res.v.kind = "Fn" /\ DotsLast) =>
        /\ IsSome(res.v.sig.variadic)
        /\ \A k \in DOMAIN res.v.sig.inputs :
              res.v.sig.inputs[k].v.kind = "Typed" => ~res.v.sig.inputs[k].v.ty.verbatim
        /\ res.v.sig.variadic[1].attrs = AttrsBefore(DotsIndex - 3)

----------------------------------------------------------------------------
(* Claims about the DeriveInput conversions (Spec) *)

\* C13: the derive-input projection is lossless in both directions.  For a
\* struct, enum or union item s, Item::from(DeriveInput::from(s)) is s, and
\* for a DeriveInput d, converting Item::from(d) back gives d; attrs, vis,
\* ident, generics and every body field are carried over unchanged and the
\* variant kind is preserved.
C13_DeriveInputLossless ==
    /\ phase = "derived" =>
          /\ Item_from_DeriveInput(derive) = tree
          /\ derive.data.kind = tree.kind
          /\ derive.attrs = tree.attrs /\ derive.vis = tree.vis
          /\ derive.ident = tree.ident /\ derive.generics = tree.generics
          /\ tree.kind = "Struct" =>
                /\ derive.data.fields = tree.fields
                /\ derive.data.semi_token = tree.semi_token
          /\ tree.kind = "Enum" => derive.data.variants = tree.variants
          /\ tree.kind = "Union" => derive.data.fields = tree.fields
    /\ phase = "projected" =>
          /\ DeriveInput_from(tree) = derive
          /\ tree.kind = derive.data.kind
          /\ tree.attrs = derive.attrs /\ tree.vis = derive.vis
          /\ tree.ident = derive.ident /\ tree.generics = derive.generics
          /\ tree.kind = "Struct" =>
                /\ tree.fields = derive.data.fields
                /\ tree.semi_token = derive.data.semi_token
          /\ tree.kind = "Enum" => tree.variants = derive.data.variants
          /\ tree.kind = "Union" => tree.fields = derive.data.fields

C13_Witness ==
    /\ phase = "projected" /\ tree.kind = "Struct"
    /\ IsSome(tree.semi_token) /\ tree.attrs # <<>> /\ tree.generics.params # <<>>
    /\ DeriveInput_from(tree) = derive

----------------------------------------------------------------------------
(* Claims about typed parameters (SpecFnArg) *)

\* The tokens FnArg::parse consumed after the parameter's attributes.
ArgConsumed == Consumed(Attribute_parse_outer(input).rest, res.rest)

\* C14: the parser never fabricates a required token.  Every successful
\* typed result of FnArg::parse has a pattern and a `:` that were present
\* in the input; a parameter written without pattern and colon, such as an
\* identifier directly followed by `<`, is a syntax error.
C14_NoFabricatedToken ==
    (phase = "parsed" /\ entry = "FnArg") =>
        /\ (res.ok /\ res.v.kind = "Typed") =>
              IsPrefix(res.v.pat.toks \o <<res.v.colon_token>>, ArgConsumed)
        /\ (PeekIn(Attribute_parse_outer(input).rest, Idents)
              /\ Peek2(Attribute_parse_outer(input).rest, "<")) => ~res.ok

----------------------------------------------------------------------------
(* Claims about synthesized terminators (Spec) *)

CountTok(s, t) == Cardinality({i \in DOMAIN s : s[i] = t})

\* C15: the printer is total over struct terminators.  A tuple or unit
\* struct is printed with exactly one `;` whether semi_token is Some or
\* None, a named-field struct with no `;` whether semi_token is Some or
\* None; a body-less module and a body-less trait method are printed with
\* their `;` also when the field is None.
C15_StructTerminator ==
    (phase = "printed" /\ entry \in {"Item", "TraitItem"}) =>
        /\ (tree.kind = "Struct" /\ tree.fields.kind \in {"Unnamed", "Unit"}) =>
                CountTok(printed, ";") = 1 /\ Last(printed) = ";"
        /\ (tree.kind = "Struct" /\ tree.fields.kind = "Named") =>
                CountTok(printed, ";") = 0 /\ Last(printed) = "}"
        /\ (tree.kind = "Mod" /\ ~IsSome(tree.content)) =>
                CountTok(printed, ";") = 1 /\ Last(printed) = ";"
        /\ (tree.kind = "TraitMethod" /\ ~IsSome(tree.default)) =>
                CountTok(printed, ";") = 1 /\ Last(printed) = ";"

C15_Witness ==
    /\ phase = "printed" /\ tree.kind = "Struct" /\ tree.fields.kind = "Unnamed"
    /\ ~IsSome(tree.semi_token) /\ Last(printed) = ";"

----------------------------------------------------------------------------
(* Claims about separators (Spec) *)

\* The token sequence s has the separator sep directly before a close.
TrailingBefore(s, sep, Closes_) ==
    \E i \in 1..(Len(s) - 1) : s[i] = sep /\ s[i + 1] \in Closes_

----------------------------------------------------------------------------
(* Claims about the outcomes of the four dispatching parsers (Spec) *)

\* The variants each entry point can return.
VariantsOf(e) ==
    CASE e = "Item" ->
            {"ExternCrate", "Use", "Static", "Const", "Fn", "Mod", "ForeignMod",
             "Type", "Struct", "Enum", "Union", "Trait", "TraitAlias", "Impl",
             "Macro", "Macro2", "Verbatim"}
      [] e = "ForeignItem" -> {"ForeignFn", "ForeignStatic", "ForeignType", "MemberMacro"}
      [] e = "TraitItem" -> {"TraitConst", "TraitMethod", "TraitType", "MemberMacro"}
      [] e = "ImplItem" -> {"ImplConst", "ImplMethod", "ImplType", "MemberMacro", "Verbatim"}
      [] e = "FnArg" -> {"Receiver", "Typed"}

\* C17: parsing never panics and never yields the sentinel.  Item::parse,
\* ForeignItem::parse, TraitItem::parse and ImplItem::parse return Ok or Err
\* without reaching an unreachable!() arm; no branch produces
\* __Nonexhaustive, and no branch of ForeignItem::parse or TraitItem::parse
\* produces Verbatim.
C17_NoPanicNoSentinel ==
    (phase = "parsed") =>
        /\ res # Unreachable
        /\ ~res.ok => res.exp # <<>> /\ tree = NoTree
        /\ res.ok => res.v.kind \in VariantsOf(entry)

C17_Witness ==
    /\ phase = "parsed" /\ entry = "TraitItem"
    /\ PeekIn(input, {"existential"})
    /\ ~res.ok /\ res # Unreachable

----------------------------------------------------------------------------
(* Claims about a build without the printing feature (SpecNoPrinting) *)

\* The dispatch of Item::parse or ImplItem::parse selects the existential
\* branch: `existential` follows the attributes and the visibility, which
\* for ImplItem::parse must be inherited.
ExistentialSelected ==
    /\ Peek(Lead, "existential")
    /\ entry = "ImplItem" => is_inherited(LeadVis)

\* C18: an unsupported construct is a hard error.  Without the printing
\* feature, an item that the dispatch recognizes as the `existential type`
\* form makes Item::parse and ImplItem::parse return the error "existential
\* type is not supported"; it is never Ok with the construct dropped, and
\* no tree is returned with the error.
C18_ExistentialHardError ==
    (phase = "parsed" /\ ~printing /\ entry \in {"Item", "ImplItem"}
        /\ ExistentialSelected) =>
        /\ ~res.ok
        /\ res.exp = <<"existential type is not supported">>
        /\ res.v = <<>> /\ tree = NoTree

C18_Witness ==
    /\ phase = "parsed" /\ ~printing /\ entry = "ImplItem"
    /\ input = <<"#[A1]", "existential", "type", "T", ":", "Bound", ";">>
    /\ ~res.ok /\ res.exp = <<"existential type is not supported">>

----------------------------------------------------------------------------
(* Claims about the delimiters of the printed tokens (Spec) *)

----------------------------------------------------------------------------
(* Claims about forks and the main cursor (Spec) *)

\* The input after the leading outer attributes.
PostAttr == Attribute_parse_outer(input).rest

\* The receiver parsed on the fork, and the test FnArg::parse commits on.
Ahead == Receiver_parse(PostAttr)
Commits == Ahead.ok /\ ~Peek(Ahead.rest, ":")

\* C20: fork and commit discipline.  FnArg::parse moves the main cursor to
\* the fork's position only when the Receiver parsed on the fork and the next
\* token is not ":"; otherwise the typed parameter is parsed from the
\* unchanged position after the attributes.  In Item::parse,
\* ForeignItem::parse, TraitItem::parse and ImplItem::parse the tokens read on
\* the fork leave the input where it was, so the selected parser reads every
\* token after the leading attributes: the visibility and the keywords the
\* lookahead passed are in the tree it returns.
C20_ForkCommit ==
    (phase = "parsed") =>
        /\ (entry = "FnArg" /\ Commits) =>
              /\ res.ok /\ res.v.kind = "Receiver"
              /\ res.rest = Ahead.rest
        /\ (entry = "FnArg" /\ ~Commits) =>
              /\ res.ok = fn_arg_typed(PostAttr).ok
              /\ res.rest = fn_arg_typed(PostAttr).rest
              /\ res.ok =>
                    /\ res.v.kind = "Typed"
                    /\ res.v.pat = fn_arg_typed(PostAttr).v.pat
                    /\ res.v.ty = fn_arg_typed(PostAttr).v.ty
              /\ (res.ok /\ Ahead.ok) =>
                    IsPrefix(Consumed(PostAttr, Ahead.rest), res.v.pat.toks)
        /\ (entry \in {"Item", "ForeignItem", "ImplItem"} /\ res.ok
              /\ "vis" \in DOMAIN res.v) =>
              res.v.vis = LeadVis
        /\ (entry = "Item" /\ res.ok /\ res.v.kind = "Fn") =>
              /\ Peek(Lead, "const") => IsSome(res.v.sig.constness)
              /\ Peek(Lead, "unsafe") => IsSome(res.v.sig.unsafety)
              /\ Peek(Lead, "extern") => IsSome(res.v.sig.abi)
        /\ (entry = "Item" /\ res.ok /\ res.v.kind \in {"Trait", "Impl"}) =>
              (Peek(Lead, "unsafe") => IsSome(res.v.unsafety))
        /\ (entry = "ImplItem" /\ res.ok
              /\ res.v.kind \in {"ImplConst", "ImplMethod", "ImplType"}) =>
              (Peek(Lead, "default") => IsSome(res.v.defaultness))
        /\ (entry = "TraitItem" /\ res.ok /\ res.v.kind = "TraitMethod") =>
              (Peek(PostAttr, "const") => IsSome(res.v.sig.constness))

\* `self : Box<Self>`: the receiver parses on the fork, ":" follows, and the
\* typed parameter is read from the position after the attributes.
C20_Witness ==
    /\ phase = "parsed" /\ entry = "FnArg"
    /\ Ahead.ok /\ Peek(Ahead.rest, ":")
    /\ res.ok /\ res.v.kind = "Typed"
    /\ res.v.pat.toks = <<"self">>

----------------------------------------------------------------------------
(* Claims about contextual keywords and modifiers (Spec) *)

\* C21: in Item::parse and ImplItem::parse `default` is the defaultness
\* keyword exactly when the token after it is not "!".  `default impl ...`
\* gives Item::Impl with defaultness present; `default ! ( ... ) ;` with
\* inherited visibility gives a macro invocation named default, never an impl
\* block or a defaulted member.
C21_DefaultLookahead ==
    (phase = "parsed" /\ entry \in {"Item", "ImplItem"} /\ Peek(Lead, "default")) =>
        /\ (entry = "Item" /\ ~Peek2(Lead, "!") /\ res.ok) =>
              res.v.kind = "Impl" /\ res.v.defaultness = Some("default")
        /\ (entry = "ImplItem" /\ ~Peek2(Lead, "!") /\ res.ok) =>
              /\ res.v.kind \in {"ImplConst", "ImplMethod", "ImplType"}
              /\ res.v.defaultness = Some("default")
        /\ (entry = "Item" /\ Peek2(Lead, "!") /\ res.ok) =>
              res.v.kind = "Macro" /\ res.v.mac.path = <<"default">>
        /\ (entry = "ImplItem" /\ Peek2(Lead, "!") /\ res.ok) =>
              res.v.kind = "MemberMacro" /\ res.v.mac.path = <<"default">>
        /\ (Peek2(Lead, "!") /\ LeadVis # <<>>) => ~res.ok
        /\ Lead \in {<<"default", "!", "(", ")", ";">>, <<"default", "!", "{", "}">>}
              /\ LeadVis = <<>> => res.ok
        /\ (entry = "Item"
              /\ Lead = <<"default", "impl", "Trait", "for", "Foo", "{", "}">>
              /\ LeadVis = <<>>) =>
              res.ok /\ res.rest = <<>>

\* `default ! { }` parsed as a member of an impl block.
C21_Witness ==
    /\ phase = "parsed" /\ entry = "ImplItem"
    /\ Peek(Lead, "default") /\ Peek2(Lead, "!")
    /\ res.ok /\ res.v.kind = "MemberMacro"

\* The parameters of the parsed function.
Inputs == tree.sig.inputs

\* C22: Signature::receiver returns Some(arg) exactly when the first element
\* of inputs is a FnArg::Receiver or a FnArg::Typed whose pattern is the plain
\* identifier `self`; it returns None when inputs is empty or the first
\* parameter is anything else, and what it returns is the first parameter.
C22_Receiver ==
    (phase = "asked") =>
        /\ IsSome(receiver) <=>
              /\ Inputs # <<>>
              /\ \/ Inputs[1].v.kind = "Receiver"
                 \/ /\ Inputs[1].v.kind = "Typed"
                    /\ Inputs[1].v.pat.toks = <<"self">>
        /\ IsSome(receiver) => receiver[1] = Inputs[1].v

\* The input after attributes and visibility opens an impl block, a foreign
\* block or a macro invocation.
OpensImpl ==
    \/ Peek(Lead, "impl")
    \/ PeekIn(Lead, {"unsafe", "default"}) /\ Peek2(Lead, "impl")
OpensForeignMod ==
    /\ Peek(Lead, "extern")
    /\ Peek2(Lead, "{") \/ (Peek2In(Lead, LitStrs) /\ Peek3(Lead, "{"))
OpensMacro == PeekIn(Lead, Idents) /\ Peek2(Lead, "!")

\* C23 as stated: whenever Item::parse or ForeignItem::parse succeeds on
\* input that begins, after the attributes, with a non-inherited visibility,
\* the result is a variant with a vis field holding that visibility; an
\* explicit visibility before an impl block, a foreign block or a macro
\* invocation is an error.
C23_VisibilityInVisField ==
    (phase = "parsed" /\ entry \in {"Item", "ForeignItem"} /\ LeadVis # <<>>) =>
        /\ res.ok => "vis" \in DOMAIN res.v /\ res.v.vis = LeadVis
        /\ (entry = "Item" /\ (OpensImpl \/ OpensForeignMod \/ OpensMacro)) => ~res.ok
        /\ (entry = "ForeignItem" /\ OpensMacro) => ~res.ok

\* C23, amended: a visibility read during lookahead is never silently
\* dropped.  A successful result on input with a non-inherited visibility is
\* a variant whose vis field holds it, or the Item::Verbatim of an
\* existential type, whose token stream begins with it; an explicit
\* visibility before an impl block, a foreign block or a macro invocation is
\* an error.
C23_VisibilityKept ==
    (phase = "parsed" /\ entry \in {"Item", "ForeignItem"} /\ LeadVis # <<>>) =>
        /\ res.ok =>
              \/ "vis" \in DOMAIN res.v /\ res.v.vis = LeadVis
              \/ /\ entry = "Item" /\ res.v.kind = "Verbatim"
                 /\ Peek(Lead, "existential")
                 /\ IsPrefix(LeadVis, res.v.tokens)
        /\ (entry = "Item" /\ (OpensImpl \/ OpensForeignMod \/ OpensMacro)) => ~res.ok
        /\ (entry = "ForeignItem" /\ OpensMacro) => ~res.ok

\* `pub type Foo ;` parsed as a member of a foreign block.
C23_Witness ==
    /\ phase = "parsed" /\ entry = "ForeignItem"
    /\ LeadVis = <<"pub">> /\ Peek(Lead, "type")
    /\ res.ok /\ res.v.vis = <<"pub">>

----------------------------------------------------------------------------
(* Claims about the function modifiers (SpecDispatch) *)

\* The modifier prefixes for which the lookahead of Item::parse selects the
\* function branch, each before `fn`.
FnBranchPrefixes ==
    {<<"const">>, <<"const", "unsafe">>, <<"const", "async">>, <<"const", "extern">>,
     <<"unsafe">>, <<"unsafe", "async">>, <<"unsafe", "extern">>}

InSeq(t, s) == \E i \in 1..Len(s) : s[i] = t

\* C24: dispatch and sub-parser agree on function modifiers.  For every
\* modifier prefix for which the lookahead of Item::parse selects the function
\* branch, ItemFn::parse accepts that order: `<prefix> fn f ( ) { }` gives
\* Item::Fn with the flags of the prefix set.
C24_ModifierAgreement ==
    (phase = "parsed" /\ entry = "Item") =>
        \A m \in FnBranchPrefixes :
            Lead = m \o <<"fn", "f", "(", ")", "{", "}">> =>
                /\ res.ok /\ res.v.kind = "Fn"
                /\ IsSome(res.v.sig.constness) <=> InSeq("const", m)
                /\ IsSome(res.v.sig.asyncness) <=> InSeq("async", m)
                /\ IsSome(res.v.sig.unsafety) <=> InSeq("unsafe", m)
                /\ IsSome(res.v.sig.abi) <=> InSeq("extern", m)

----------------------------------------------------------------------------
(* Claims about bodies and terminators (Spec) *)

\* Exactly one of two optional fields is present.
ExactlyOne(a, b) == IsSome(a) # IsSome(b)

\* The exclusivity required of one tree, and of the members it contains.
RECURSIVE ExclusiveBody(_)
ExclusiveBody(t) ==
    CASE t.kind = "TraitMethod" -> ExactlyOne(t.default, t.semi_token)
      [] t.kind = "Mod" ->
            /\ ExactlyOne(t.content, t.semi)
            /\ IsSome(t.content) =>
                  \A i \in 1..Len(t.content[1]) : ExclusiveBody(t.content[1][i])
      [] t.kind \in {"Trait", "Impl"} ->
            \A i \in 1..Len(t.items) : ExclusiveBody(t.items[i])
      [] OTHER -> TRUE

\* The token the parser consumed last.
LastConsumed == Last(Consumed(input, res.rest))

\* C25: body/terminator exclusivity.  Every TraitItemMethod the parser
\* returns has exactly one of default and semi_token, every ItemMod exactly
\* one of content and semi, every ImplItemMethod and ItemFn has a body; an
\* input with neither a body nor a terminator is an error.
C25_BodyOrTerminator ==
    (phase = "parsed" /\ entry \in {"Item", "TraitItem", "ImplItem"}) =>
        /\ res.ok => ExclusiveBody(res.v)
        /\ (res.ok /\ res.v.kind \in {"Fn", "ImplMethod"}) => LastConsumed = "}"
        /\ (res.ok /\ res.v.kind = "TraitMethod") =>
              /\ IsSome(res.v.semi_token) <=> LastConsumed = ";"
              /\ IsSome(res.v.default) <=> LastConsumed = "}"
        /\ (res.ok /\ res.v.kind = "Mod") =>
              /\ IsSome(res.v.semi) <=> LastConsumed = ";"
              /\ IsSome(res.v.content) <=> LastConsumed = "}"
        /\ Lead \in {<<"fn", "f", "(", ")">>, <<"mod", "m">>,
                     <<"mod", "m", "{", "fn", "f", "(", ")", "}">>} => ~res.ok
        /\ (entry \in {"Item", "ImplItem"} /\ Peek(Lead, "fn") /\ Last(input) = ";")
              => ~res.ok

\* A trait whose members are a method with a terminator and one with a body.
C25_Witness ==
    /\ phase = "parsed" /\ entry = "Item"
    /\ res.ok /\ res.v.kind = "Trait"
    /\ \E i, j \in 1..Len(res.v.items) :
          /\ res.v.items[i].kind = "TraitMethod" /\ IsSome(res.v.items[i].semi_token)
          /\ res.v.items[j].kind = "TraitMethod" /\ IsSome(res.v.items[j].default)

----------------------------------------------------------------------------
(* Claims about the printed parameter list (Spec) *)

\* The tokens between the first "(" of s and its close.
ParamList(s) ==
    LET i == CHOOSE k \in 1..Len(s) : s[k] = "(" /\ \A j \in 1..(k - 1) : s[j] # "("
    IN  SubSeq(s, i + 1, CloseIndex(s, i + 1, 1) - 1)

\* The last parameter is a typed parameter whose type is the verbatim `...`.
LastIsDots(inputs) ==
    /\ inputs # <<>>
    /\ Last(inputs).v.kind = "Typed"
    /\ Last(inputs).v.ty = [verbatim |-> TRUE, toks |-> <<"...">>]

\* C26: the Signature printer emits the variadic `...` at most once.  If the
\* last element of inputs is a typed parameter whose type is the verbatim
\* `...`, the variadic field is not printed; otherwise a present variadic is
\* printed after the inputs, preceded by a synthesized "," exactly when
\* inputs is non-empty and has no trailing comma.  For every ItemFn and
\* ForeignItemFn the parser produced, the printed parameter list equals the
\* parameter list of the input.
C26_VariadicOnce ==
    (phase = "printed" /\ entry \in {"Item", "ForeignItem"}
        /\ tree.kind \in {"Fn", "ForeignFn"}) =>
        LET sig == tree.sig
            ins == Punctuated_to_tokens(FnArg_to_tokens, sig.inputs)
        IN  /\ (LastIsDots(sig.inputs) \/ ~IsSome(sig.variadic)) =>
                  ParamList(printed) = ins
            /\ (~LastIsDots(sig.inputs) /\ IsSome(sig.variadic)) =>
                  ParamList(printed) =
                      ins
                      \o (IF sig.inputs # <<>> /\ ~IsSome(Last(sig.inputs).p)
                          THEN <<",">> ELSE <<>>)
                      \o sig.variadic[1].attrs \o <<"...">>
            /\ tree = res.v => ParamList(printed) = ParamList(input)

----------------------------------------------------------------------------
(* Claims about macro invocations (Spec) *)

\* The macro invocations of a tree: itself, or those among its members.
MacrosOf(t) ==
    IF t.kind \in {"Macro", "MemberMacro"} THEN {t}
    ELSE IF t.kind \in {"Trait", "Impl", "ForeignMod"}
    THEN {t.items[i] : i \in {k \in 1..Len(t.items) :
                                  t.items[k].kind \in {"Macro", "MemberMacro"}}}
    ELSE {}

\* C27: macro-item terminator rule.  For every ItemMacro, ForeignItemMacro,
\* TraitItemMacro and ImplItemMacro the parser returns, semi_token is present
\* if and only if the delimiter is not a brace; a parenthesized or bracketed
\* invocation without a following ";" is an error, and a braced invocation
\* never consumes a following ";".
C27_MacroTerminator ==
    (phase = "parsed") =>
        /\ (res.ok /\ entry # "FnArg") =>
              \A m \in MacrosOf(res.v) : IsSome(m.semi_token) <=> m.mac.delimiter # "{"
        /\ (res.ok /\ entry # "FnArg" /\ res.v.kind \in {"Macro", "MemberMacro"}) =>
              /\ res.v.mac.delimiter = "{" => LastConsumed = "}"
              /\ res.v.mac.delimiter # "{" => LastConsumed = ";"
        /\ Lead \in {<<"m", "!", "(", ")">>, <<"m", "!", "[", "]">>} => ~res.ok
        /\ (Lead = <<"m", "!", "{", "}", ";">> /\ LeadVis = <<>>) =>
              res.ok /\ res.rest = <<";">> /\ res.v.semi_token = None

\* `m ! { } ;` parsed as a member: the ";" is left in the input.
C27_Witness ==
    /\ phase = "parsed" /\ entry = "ForeignItem"
    /\ Lead = <<"m", "!", "{", "}", ";">>
    /\ res.ok /\ res.v.kind = "MemberMacro" /\ res.rest = <<";">>

----------------------------------------------------------------------------
(* Claims about contextual keywords as macro names (SpecDispatch) *)

\* The contextual keywords the dispatcher of Item::parse tests.
ContextualKeywords == {"union", "auto", "default", "existential"}

\* C28: contextual keywords stay usable as macro names.  For each of
\* `union`, `auto`, `default` and `existential`, Item::parse gives, for
\* `kw ! ( ) ;` with inherited visibility, Item::Macro whose path is that
\* keyword.
C28_KeywordMacros ==
    (phase = "parsed" /\ entry = "Item") =>
        \A kw \in ContextualKeywords :
            input = <<kw, "!", "(", ")", ";">> =>
                /\ res.ok /\ res.v.kind = "Macro"
                /\ res.v.mac.path = <<kw>>
                /\ res.rest = <<>>

----------------------------------------------------------------------------
(* Claims about the colon of a bound list (Spec) *)

\* The number of tokens printed before the place of the bounds' colon.
BoundsHeadLen(t) ==
    IF t.kind = "Trait"
    THEN Len(attrs_outer(t.attrs)) + Len(t.vis) + Len(t.unsafety) + Len(t.auto_token)
         + 2 + Len(Generics_to_tokens(t.generics))
    ELSE Len(attrs_outer(t.attrs)) + 2 + Len(Generics_to_tokens(t.generics))

\* C29: colon fidelity for bound lists.  For every ItemTrait and
\* TraitItemType the parser returns, the printer emits the ":" introducing
\* the bounds if and only if colon_token is present in the tree, also for an
\* associated type written with a colon and an empty bound list.
C29_ColonFidelity ==
    (phase = "printed" /\ tree = res.v /\ entry \in {"Item", "TraitItem"}
        /\ tree.kind \in {"Trait", "TraitType"}) =>
        (/\ Len(printed) > BoundsHeadLen(tree)
         /\ printed[BoundsHeadLen(tree) + 1] = ":")
        <=> IsSome(tree.colon_token)

----------------------------------------------------------------------------
(* The loops of item.rs, one iteration per step.  res holds the values     *)
(* collected so far and the cursor; phase is "loop" while the loop runs,   *)
(* "done" after its exit and "failed" after an error return.               *)

MemberLoops == {"ModItems", "ForeignItems", "TraitItems", "ImplItems"}
BoundLoops == {"Supertraits", "AliasBounds", "TypeBounds", "ExistentialBounds"}

\* The outcome of one iteration.
Step(p, r) == [phase |-> p, res |-> r]

\* The parser `content.parse()?` resolves to in each member loop.
MemberEntry(e) ==
    CASE e = "ModItems" -> "Item"
      [] e = "ForeignItems" -> "ForeignItem"
      [] e = "TraitItems" -> "TraitItem"
      [] e = "ImplItems" -> "ImplItem"

\* The member loop with the member parsed on a fork of the cursor.
MemberIteration_on_fork(e, cur) ==
    IF cur.rest = <<>> THEN Step("done", cur)
    ELSE (CHOOSE out \in {
        IF ~item.ok THEN Step("failed", item)
        ELSE Step("loop", Ok(Append(cur.v, item.v), cur.rest))
      : item \in {Parse(MemberEntry(e), cur.rest)}} : TRUE)

\* while !content.is_empty() { items.push(content.parse()?); }
MemberIteration(e, cur) ==
    IF cur.rest = <<>> THEN Step("done", cur)
    ELSE (CHOOSE out \in {
        IF ~item.ok THEN Step("failed", item)
        ELSE Step("loop", Ok(Append(cur.v, item.v), item.rest))
      : item \in {Parse(MemberEntry(e), cur.rest)}} : TRUE)

\* One iteration of parse_terminated(UseTree::parse) in a use-group:
\* if empty break; value; if empty break; punct.
UseGroupIteration(cur) ==
    IF cur.rest = <<>> THEN Step("done", cur)
    ELSE (CHOOSE out \in {
        IF ~value.ok THEN Step("failed", value)
        ELSE IF value.rest = <<>>
        THEN Step("done", Ok(Append(cur.v, [v |-> value.v, p |-> None]), value.rest))
        ELSE (CHOOSE out \in {
            IF ~punct.ok THEN Step("failed", punct)
            ELSE Step("loop", Ok(Append(cur.v, [v |-> value.v, p |-> Some(",")]),
                                 punct.rest))
          : punct \in {ParseTok(value.rest, ",")}} : TRUE)
      : value \in {UseTree_parse(cur.rest)}} : TRUE)

\* while !input.peek(stop) { if !bounds.is_empty() { `+` } bound }
\* (TraitItemType::parse and item_existential)
WhileBoundsIteration(cur, Stops) ==
    IF PeekIn(cur.rest, Stops) THEN Step("done", cur)
    ELSE (CHOOSE out \in {
        IF ~plus.ok THEN Step("failed", plus)
        ELSE (CHOOSE out \in {
            IF ~bound.ok THEN Step("failed", bound)
            ELSE Step("loop", Ok(Append(cur.v, bound.v), bound.rest))
          : bound \in {TypeParamBound_parse(plus.rest)}} : TRUE)
      : plus \in {IF cur.v = <<>> THEN Ok("+", cur.rest)
                        ELSE ParseTok(cur.rest, "+")}} : TRUE)

\* loop { bound; if stop break; `+`; if stop break } (parse_rest_of_trait)
SupertraitsIteration(cur) ==
    (CHOOSE out \in {
    IF ~bound.ok THEN Step("failed", bound)
    ELSE IF PeekIn(bound.rest, {"where", "{"})
    THEN Step("done", Ok(Append(cur.v, bound.v), bound.rest))
    ELSE (CHOOSE out \in {
        IF ~plus.ok THEN Step("failed", plus)
        ELSE Step(IF PeekIn(plus.rest, {"where", "{"}) THEN "done" ELSE "loop",
                  Ok(Append(cur.v, bound.v), plus.rest))
      : plus \in {ParseTok(bound.rest, "+")}} : TRUE)
      : bound \in {TypeParamBound_parse(cur.rest)}} : TRUE)

\* loop { if stop break; bound; if stop break; `+` }
\* (parse_rest_of_trait_alias)
AliasBoundsIteration(cur) ==
    IF PeekIn(cur.rest, {"where", ";"}) THEN Step("done", cur)
    ELSE (CHOOSE out \in {
        IF ~bound.ok THEN Step("failed", bound)
        ELSE IF PeekIn(bound.rest, {"where", ";"})
        THEN Step("done", Ok(Append(cur.v, bound.v), bound.rest))
        ELSE (CHOOSE out \in {
            IF ~plus.ok THEN Step("failed", plus)
            ELSE Step("loop", Ok(Append(cur.v, bound.v), plus.rest))
          : plus \in {ParseTok(bound.rest, "+")}} : TRUE)
      : bound \in {TypeParamBound_parse(cur.rest)}} : TRUE)

BoundIteration(e, cur) ==
    CASE e = "Supertraits" -> SupertraitsIteration(cur)
      [] e = "AliasBounds" -> AliasBoundsIteration(cur)
      [] e = "TypeBounds" -> WhileBoundsIteration(cur, {"where", "=", ";"})
      [] e = "ExistentialBounds" -> WhileBoundsIteration(cur, {";"})

\* The contents of a module, a foreign block, a trait and an impl block.
ModMembers ==
    {<<>>, <<"fn", "f", "(", ")", "{", "}">>, <<"struct", "Foo", ";">>,
     <<"mod", "m", "{", "mod", "m", ";", "fn", "f", "(", ")", "{", "}", "}">>,
     <<"use", "a", "::", "{", "b", ",", "*", "}", ";">>,
     <<"m", "!", "{", "}">>, <<"#[A1]">>, <<"pub">>, <<";">>,
     <<"existential", "type", "T", ":", "Bound", ";">>,
     <<"trait", "Foo", ":", "Bound", "+", "{", "type", "x", ":", ";", "}">>}

ForeignMembers ==
    {<<>>, <<"fn", "f", "(", "x", ":", "T", ",", "...", ")", ";">>,
     <<"static", "x", ":", "T", ";">>, <<"pub", "type", "Foo", ";">>,
     <<"m", "!", "{", "}">>, <<"#[A1]">>, <<";">>}

TraitMembers ==
    {<<>>, <<"fn", "f", "(", "&", "self", ")", ";">>, <<"type", "x", ":", ";">>,
     <<"const", "x", ":", "T", ";">>, <<"m", "!", "{", "}">>, <<"#[A1]">>, <<";">>}

ImplMembers ==
    {<<>>, <<"fn", "f", "(", ")", "{", "}">>, <<"default", "type", "T", "=", "Foo", ";">>,
     <<"pub", "const", "x", ":", "T", "=", "1", ";">>, <<"default", "!", "{", "}">>,
     <<"#[A1]">>, <<";">>}

Triples(S) == {a \o b \o c : a, b, c \in S}

UseGroupAlphabet == {"a", "::", ",", "*", "{", "}", "as", "_"}
MaxUseToks == 4

BoundAlphabet == {"Bound", "'a", "+", "?"}
MaxBoundToks == 4
BoundTails ==
    {<<>>, <<";">>, <<"where", "T", ":", "Bound", ";">>, <<"{", "}">>,
     <<"=", "T", ";">>, <<"T">>}

LoopInputs(e) ==
    CASE e = "ModItems" -> Triples(ModMembers)
      [] e = "ForeignItems" -> Triples(ForeignMembers)
      [] e = "TraitItems" -> Triples(TraitMembers)
      [] e = "ImplItems" -> Triples(ImplMembers)
      [] e = "UseGroup" ->
            {s \in SeqsUpTo(UseGroupAlphabet, MaxUseToks) : Balanced(s, <<>>)}
      [] e \in BoundLoops ->
            {b \o t : b \in SeqsUpTo(BoundAlphabet, MaxBoundToks), t \in BoundTails}

InitLoops ==
    /\ entry \in MemberLoops \cup {"UseGroup"} \cup BoundLoops
    /\ input \in LoopInputs(entry)
    /\ phase = "loop"
    /\ res = Ok(<<>>, input)
    /\ tree = NoTree
    /\ printed = <<>>
    /\ res2 = NoRes
    /\ derive = NoDerive
    /\ printing = TRUE
    /\ receiver = None

IterateMembers ==
    /\ phase = "loop" /\ entry \in MemberLoops
    /\ phase' = MemberIteration(entry, res).phase
    /\ res' = MemberIteration(entry, res).res
    /\ UNCHANGED <<input, entry, tree, printed, res2, derive, printing, receiver>>

\* res2 keeps the result of the UseTree::parse call of the iteration.
IterateUseGroup ==
    /\ phase = "loop" /\ entry = "UseGroup"
    /\ phase' = UseGroupIteration(res).phase
    /\ res' = UseGroupIteration(res).res
    /\ res2' = IF res.rest = <<>> THEN res2 ELSE UseTree_parse(res.rest)
    /\ UNCHANGED <<input, entry, tree, printed, derive, printing, receiver>>

IterateBounds ==
    /\ phase = "loop" /\ entry \in BoundLoops
    /\ phase' = BoundIteration(entry, res).phase
    /\ res' = BoundIteration(entry, res).res
    /\ UNCHANGED <<input, entry, tree, printed, res2, derive, printing, receiver>>

NextLoops == IterateMembers \/ IterateUseGroup \/ IterateBounds

\* A loop that can iterate does iterate: the parser runs to its return.
SpecLoops == InitLoops /\ [][NextLoops]_vars /\ WF_vars(NextLoops)

\* What one step of a loop does to the cursor.
C30_ProgressStep ==
    /\ (phase = "loop" /\ phase' = "loop") => Len(res'.rest) < Len(res.rest)
    /\ (entry = "UseGroup" /\ phase = "loop" /\ res.rest # <<>> /\ res2'.ok) =>
          Len(res2'.rest) < Len(res.rest)
    /\ (phase = "loop" /\ phase' # "failed") => res'.ok /\ Len(res'.rest) <= Len(res.rest)

\* C30: progress and termination.  Every successful call of Item::parse,
\* ForeignItem::parse, TraitItem::parse, ImplItem::parse and UseTree::parse
\* advances the cursor by at least one token, and every iteration of the
\* bound-list loops (supertraits, trait-alias bounds, associated-type bounds,
\* existential bounds) either consumes a token or returns an error or leaves
\* the loop; hence the member loops, the use-group loop and the bound loops
\* terminate on every finite token buffer.
C30_Termination ==
    /\ [][C30_ProgressStep]_vars
    /\ <>(phase \in {"done", "failed"})

\* A module body of three items parsed to its end, the last one a nested
\* module.
C30_Witness ==
    /\ phase = "done" /\ entry = "ModItems"
    /\ Len(res.v) = 3 /\ res.v[3].kind = "Mod" /\ IsSome(res.v[3].content)
    /\ res.rest = <<>>

====
